---------------------------- MODULE Spec2Model ----------------------------
(***************************************************************************)
(* Koch-Morse-Trainer: the training-material generator                     *)
(* (Create_Koch_Morse_Training_Materials.py).                              *)
(*                                                                         *)
(* Text is a sequence of one-character strings.  A duration is an exact    *)
(* rational [n, d] in lowest terms with d > 0.  An audio array is modelled *)
(* as the sequence of the segments np.append concatenated into it; each    *)
(* segment keeps its duration, the number of samples the code allocates    *)
(* for it, and the source statement that produced it (its role).           *)
(***************************************************************************)
EXTENDS Integers, Sequences, FiniteSets, TLC

VARIABLES
    pc,             \* position of the running script
    char_wpm,       \* MorseCodeGenerator.__init__ argument
    effective_wpm,  \* MorseCodeGenerator.__init__ argument
    timing,         \* the five duration attributes, or NoTiming
    error,          \* the exception that ended the run, or "none"
    text,           \* argument of text_to_morse_audio
    audio,          \* value returned by text_to_morse_audio
    samples,        \* save_audio argument: the float samples of a buffer
    wav,            \* the int16 samples wavfile.write stored, or NoFile
    console,        \* what the script printed (stdout and warnings)
    char_set,       \* generate_pattern / get_character_weights argument
    frequency_mode, \* KochMethodTrainer.frequency_mode
    num_chars,      \* generate_pattern argument
    weights,        \* value returned by get_character_weights
    rng,            \* state of the process-wide generator of module random
    results,        \* texts returned by the generate_pattern calls so far
    idx,            \* create_character_lessons loop index
    lesson_num,     \* create_lessons outer loop variable
    file_num,       \* create_lessons inner loop variable
    files_per_lesson, \* create_all argument
    files,          \* the files on disk: path -> content
    failed,         \* paths whose write raised OSError
    worker_pc,      \* per worker of a parallel run: "todo", "generated", "done"
    worker_text,    \* per worker: the text its iteration generated
    accesses,       \* who touched which mutable location: [worker, loc]
    drill_char,     \* generate_single_character_pattern argument char
    drill_count,    \* generate_single_character_pattern argument count
    duration,       \* generate_tone / generate_silence argument
    buffer,         \* the array generate_tone / generate_silence returned
    window,         \* the fields of the KochWindow object and of its players
    settings,       \* QSettings("Koch", "LessonProgress"): key -> value
    data,           \* StatisticsManager.data
    lesson_cache,   \* StatisticsManager._lesson_cache
    overall_cache,  \* StatisticsManager._overall_cache
    returned,       \* value returned by the last StatisticsManager query
    clock           \* the year datetime.now() reports

encodeVars == <<char_wpm, effective_wpm, timing, text, audio>>

saveVars == <<samples, wav>>

patternVars == <<char_set, num_chars, frequency_mode, weights, rng, results>>

workerVars == <<worker_pc, worker_text, accesses>>

batchVars == <<idx, lesson_num, file_num, files_per_lesson, files, failed, workerVars>>

drillVars == <<drill_char, drill_count>>

toneVars == <<duration, buffer>>

\* the state outside the material generator's text, pattern and batch calls
windowVars == <<window, settings>>

statsVars == <<data, lesson_cache, overall_cache, returned, clock>>

extraVars == <<toneVars, windowVars, statsVars>>

\* the state of the material generator's text, pattern and batch calls
materialVars == <<encodeVars, saveVars, patternVars, batchVars, drillVars>>

vars == <<pc, error, console, materialVars, extraVars>>

---------------------------------------------------------------------------
(* Bounds of the model *)

MaxWpm == 4

MaxTextLen == 3

MaxBufLen == 3

MaxAmp == 2

MaxCharSet == 2

MaxSeed == 5

MaxCalls == 2

MaxFilesPerLesson == 2

MaxBatchSeed == 1

\* number of states of the modelled pseudo-random generator
RngStates == 64

---------------------------------------------------------------------------
(* Exact rational arithmetic *)

RECURSIVE GCD(_, _)
GCD(a, b) == IF b = 0 THEN a ELSE GCD(b, a % b)

Abs(x) == IF x < 0 THEN -x ELSE x

Rat(n, d) ==
    LET g == GCD(Abs(n), Abs(d))
        s == IF d < 0 THEN -1 ELSE 1
    IN  [n |-> (s * n) \div g, d |-> (s * d) \div g]

RInt(k) == [n |-> k, d |-> 1]

RAdd(a, b) == Rat(a.n * b.d + b.n * a.d, a.d * b.d)

RSub(a, b) == Rat(a.n * b.d - b.n * a.d, a.d * b.d)

RMul(a, b) == Rat(a.n * b.n, a.d * b.d)

RDivInt(a, k) == Rat(a.n, a.d * k)

RScale(k, a) == Rat(k * a.n, a.d)

RLess(a, b) == a.n * b.d < b.n * a.d

RLeq(a, b) == a.n * b.d <= b.n * a.d

\* Python int(): truncation toward zero
IntTrunc(a) == IF a.n >= 0 THEN a.n \div a.d ELSE -((-a.n) \div a.d)

Lcm(a, b) == (a * b) \div GCD(a, b)

RECURSIVE LcmSet(_)
LcmSet(S) ==
    IF S = {} THEN 1
    ELSE LET x == CHOOSE y \in S : TRUE
         IN  Lcm(x, LcmSet(S \ {x}))

RECURSIVE SumNum(_, _, _)
SumNum(s, D, i) ==
    IF i > Len(s) THEN 0
    ELSE s[i].n * (D \div s[i].d) + SumNum(s, D, i + 1)

\* the sum of a sequence of rationals, over their common denominator
RSum(s) ==
    LET D == LcmSet({s[i].d : i \in DOMAIN s})
    IN  Rat(SumNum(s, D, 1), D)

---------------------------------------------------------------------------
(* MorseCodeGenerator: table and timing model *)

sample_rate == 44100

\* morse_code without the entry of X
morse_code_WithoutX ==
    "K" :> <<"-", ".", "-">> @@ "M" :> <<"-", "-">> @@ "U" :> <<".", ".", "-">> @@
    "R" :> <<".", "-", ".">> @@ "E" :> <<".">> @@ "S" :> <<".", ".", ".">> @@
    "N" :> <<"-", ".">> @@ "A" :> <<".", "-">> @@ "P" :> <<".", "-", "-", ".">> @@
    "T" :> <<"-">> @@ "L" :> <<".", "-", ".", ".">> @@ "W" :> <<".", "-", "-">> @@
    "I" :> <<".", ".">> @@ "." :> <<".", "-", ".", "-", ".", "-">> @@ "J" :> <<".", "-", "-", "-">> @@
    "Z" :> <<"-", "-", ".", ".">> @@ "=" :> <<"-", ".", ".", ".", "-">> @@ "F" :> <<".", ".", "-", ".">> @@
    "O" :> <<"-", "-", "-">> @@ "Y" :> <<"-", ".", "-", "-">> @@ "," :> <<"-", "-", ".", ".", "-", "-">> @@
    "V" :> <<".", ".", ".", "-">> @@ "G" :> <<"-", "-", ".">> @@ "5" :> <<".", ".", ".", ".", ".">> @@
    "/" :> <<"-", ".", ".", "-", ".">> @@ "Q" :> <<"-", "-", ".", "-">> @@ "9" :> <<"-", "-", "-", "-", ".">> @@
    "2" :> <<".", ".", "-", "-", "-">> @@ "H" :> <<".", ".", ".", ".">> @@ "3" :> <<".", ".", ".", "-", "-">> @@
    "8" :> <<"-", "-", "-", ".", ".">> @@ "B" :> <<"-", ".", ".", ".">> @@ "?" :> <<".", ".", "-", "-", ".", ".">> @@
    "4" :> <<".", ".", ".", ".", "-">> @@ "7" :> <<"-", "-", ".", ".", ".">> @@ "C" :> <<"-", ".", "-", ".">> @@
    "1" :> <<".", "-", "-", "-", "-">> @@ "D" :> <<"-", ".", ".">> @@ "6" :> <<"-", ".", ".", ".", ".">> @@
    "0" :> <<"-", "-", "-", "-", "-">> @@ " " :> <<" ">>

morse_code ==
    "K" :> <<"-", ".", "-">> @@ "M" :> <<"-", "-">> @@ "U" :> <<".", ".", "-">> @@
    "R" :> <<".", "-", ".">> @@ "E" :> <<".">> @@ "S" :> <<".", ".", ".">> @@
    "N" :> <<"-", ".">> @@ "A" :> <<".", "-">> @@ "P" :> <<".", "-", "-", ".">> @@
    "T" :> <<"-">> @@ "L" :> <<".", "-", ".", ".">> @@ "W" :> <<".", "-", "-">> @@
    "I" :> <<".", ".">> @@ "." :> <<".", "-", ".", "-", ".", "-">> @@ "J" :> <<".", "-", "-", "-">> @@
    "Z" :> <<"-", "-", ".", ".">> @@ "=" :> <<"-", ".", ".", ".", "-">> @@ "F" :> <<".", ".", "-", ".">> @@
    "O" :> <<"-", "-", "-">> @@ "Y" :> <<"-", ".", "-", "-">> @@ "," :> <<"-", "-", ".", ".", "-", "-">> @@
    "V" :> <<".", ".", ".", "-">> @@ "G" :> <<"-", "-", ".">> @@ "5" :> <<".", ".", ".", ".", ".">> @@
    "/" :> <<"-", ".", ".", "-", ".">> @@ "Q" :> <<"-", "-", ".", "-">> @@ "9" :> <<"-", "-", "-", "-", ".">> @@
    "2" :> <<".", ".", "-", "-", "-">> @@ "H" :> <<".", ".", ".", ".">> @@ "3" :> <<".", ".", ".", "-", "-">> @@
    "8" :> <<"-", "-", "-", ".", ".">> @@ "B" :> <<"-", ".", ".", ".">> @@ "?" :> <<".", ".", "-", "-", ".", ".">> @@
    "4" :> <<".", ".", ".", ".", "-">> @@ "7" :> <<"-", "-", ".", ".", ".">> @@ "C" :> <<"-", ".", "-", ".">> @@
    "1" :> <<".", "-", "-", "-", "-">> @@ "D" :> <<"-", ".", ".">> @@ "6" :> <<"-", ".", ".", ".", ".">> @@
    "0" :> <<"-", "-", "-", "-", "-">> @@ "X" :> <<"-", ".", ".", "-">> @@ " " :> <<" ">>

NoTiming == [none |-> TRUE]

\* 1.2 / char_wpm, 60.0 / char_wpm, 60.0 / effective_wpm raise
\* ZeroDivisionError on a zero divisor; nothing else is checked.
InitRaises(c, e) == c = 0 \/ (e < c /\ e = 0)

\* InitTiming with the extra time spread over 20 units instead of 19
InitTiming_Units20(c, e) ==
    LET dit_time == Rat(6, 5 * c)
        extra_time == RSub(Rat(60, e), Rat(60, c))
        extra_per_unit == RDivInt(extra_time, 20)
    IN  [dit_time |-> dit_time,
         dah_time |-> RScale(3, dit_time),
         element_space_time |-> dit_time,
         char_space_time |->
             IF e < c THEN RAdd(RScale(3, dit_time), RScale(3, extra_per_unit))
             ELSE RScale(3, dit_time),
         word_space_time |->
             IF e < c THEN RAdd(RScale(7, dit_time), RScale(7, extra_per_unit))
             ELSE RScale(7, dit_time)]

\* InitTiming with the extra time taken as standard minus target
InitTiming_ExtraNegated(c, e) ==
    LET dit_time == Rat(6, 5 * c)
        extra_per_unit == RDivInt(RSub(Rat(60, c), Rat(60, e)), 19)
    IN  [dit_time |-> dit_time,
         dah_time |-> RScale(3, dit_time),
         element_space_time |-> dit_time,
         char_space_time |->
             IF e < c THEN RAdd(RScale(3, dit_time), RScale(3, extra_per_unit))
             ELSE RScale(3, dit_time),
         word_space_time |->
             IF e < c THEN RAdd(RScale(7, dit_time), RScale(7, extra_per_unit))
             ELSE RScale(7, dit_time)]

\* InitTiming with 4 and 8 dits of standard spacing when nothing is stretched
InitTiming_StandardFour(c, e) ==
    LET dit_time == Rat(6, 5 * c)
        extra_per_unit == RDivInt(RSub(Rat(60, e), Rat(60, c)), 19)
    IN  [dit_time |-> dit_time,
         dah_time |-> RScale(3, dit_time),
         element_space_time |-> dit_time,
         char_space_time |->
             IF e < c THEN RAdd(RScale(3, dit_time), RScale(3, extra_per_unit))
             ELSE RScale(4, dit_time),
         word_space_time |->
             IF e < c THEN RAdd(RScale(7, dit_time), RScale(7, extra_per_unit))
             ELSE RScale(8, dit_time)]

\* InitTiming with the dit derived from the effective speed
InitTiming_DitFromEffective(c, e) ==
    LET dit_time == Rat(6, 5 * e)
        extra_per_unit == RDivInt(RSub(Rat(60, e), Rat(60, c)), 19)
    IN  [dit_time |-> dit_time,
         dah_time |-> RScale(3, dit_time),
         element_space_time |-> dit_time,
         char_space_time |->
             IF e < c THEN RAdd(RScale(3, dit_time), RScale(3, extra_per_unit))
             ELSE RScale(3, dit_time),
         word_space_time |->
             IF e < c THEN RAdd(RScale(7, dit_time), RScale(7, extra_per_unit))
             ELSE RScale(7, dit_time)]

\* The attributes already assigned (lines 83-87) when line 98 raises
PartialTiming(c) ==
    LET dit_time == Rat(6, 5 * c)
    IN  [dit_time |-> dit_time,
         dah_time |-> RScale(3, dit_time),
         element_space_time |-> dit_time]

\* The attributes __init__ assigns (lines 83-111), for arguments on which
\* it does not raise.
InitTiming(c, e) ==
    LET dit_time == Rat(6, 5 * c)
        dah_time == RScale(3, dit_time)
        element_space_time == dit_time
        standard_char_space == RScale(3, dit_time)
        standard_word_space == RScale(7, dit_time)
        char_time_per_word == Rat(60, c)
        target_time_per_word == Rat(60, e)
        extra_time == RSub(target_time_per_word, char_time_per_word)
        total_space_units == 19
        extra_per_unit == RDivInt(extra_time, total_space_units)
    IN  IF e < c
        THEN [dit_time |-> dit_time,
              dah_time |-> dah_time,
              element_space_time |-> element_space_time,
              char_space_time |-> RAdd(standard_char_space, RScale(3, extra_per_unit)),
              word_space_time |-> RAdd(standard_word_space, RScale(7, extra_per_unit))]
        ELSE [dit_time |-> dit_time,
              dah_time |-> dah_time,
              element_space_time |-> element_space_time,
              char_space_time |-> RScale(3, dit_time),
              word_space_time |-> RScale(7, dit_time)]

---------------------------------------------------------------------------
(* Audio generation *)

\* int(self.sample_rate * duration)
NumSamples(d) == IntTrunc(RScale(sample_rate, d))

\* fade_samples = int(self.sample_rate * 0.005)
fade_samples == IntTrunc(RScale(sample_rate, Rat(1, 200)))

\* the first and the last fade_samples samples are scaled by a linear ramp
\* if len(tone) > 2 * fade_samples
generate_tone(d, role) ==
    [kind |-> "tone", dur |-> d, n |-> NumSamples(d), role |-> role,
     faded |-> NumSamples(d) > 2 * fade_samples]

generate_silence(d, role) ==
    [kind |-> "silence", dur |-> d, n |-> NumSamples(d), role |-> role]

\* CharLoop with the element gap after every symbol, the last included
RECURSIVE CharLoop_TrailingGap(_, _, _)
CharLoop_TrailingGap(tm, morse, i) ==
    IF i > Len(morse) THEN <<>>
    ELSE (IF morse[i] = "." THEN <<generate_tone(tm.dit_time, "dit")>>
          ELSE IF morse[i] = "-" THEN <<generate_tone(tm.dah_time, "dah")>>
          ELSE <<>>)
         \o <<generate_silence(tm.element_space_time, "element_space")>>
         \o CharLoop_TrailingGap(tm, morse, i + 1)

RECURSIVE CharLoop(_, _, _)
CharLoop(tm, morse, i) ==
    IF i > Len(morse) THEN <<>>
    ELSE (IF morse[i] = "." THEN <<generate_tone(tm.dit_time, "dit")>>
          ELSE IF morse[i] = "-" THEN <<generate_tone(tm.dah_time, "dah")>>
          ELSE <<>>)
         \o (IF i < Len(morse)
             THEN <<generate_silence(tm.element_space_time, "element_space")>>
             ELSE <<>>)
         \o CharLoop(tm, morse, i + 1)

\* char_to_morse_audio sounding a dit for a character without an entry
char_to_morse_audio_UnknownAsDit(tm, char) ==
    IF char \notin DOMAIN morse_code THEN <<generate_tone(tm.dit_time, "dit")>>
    ELSE CharLoop(tm, morse_code[char], 1)

char_to_morse_audio(tm, char) ==
    IF char \notin DOMAIN morse_code THEN <<>>
    ELSE CharLoop(tm, morse_code[char], 1)

\* TextLoop emitting the character gap also before a space
RECURSIVE TextLoop_NoSuppress(_, _, _)
TextLoop_NoSuppress(tm, txt, i) ==
    IF i > Len(txt) THEN <<>>
    ELSE (IF txt[i] = " "
          THEN <<generate_silence(tm.word_space_time, "word_space")>>
          ELSE char_to_morse_audio(tm, txt[i])
               \o (IF i < Len(txt)
                   THEN <<generate_silence(tm.char_space_time, "char_space")>>
                   ELSE <<>>))
         \o TextLoop_NoSuppress(tm, txt, i + 1)

RECURSIVE TextLoop(_, _, _)
TextLoop(tm, txt, i) ==
    IF i > Len(txt) THEN <<>>
    ELSE (IF txt[i] = " "
          THEN <<generate_silence(tm.word_space_time, "word_space")>>
          ELSE char_to_morse_audio(tm, txt[i])
               \o (IF i < Len(txt) /\ txt[i + 1] # " "
                   THEN <<generate_silence(tm.char_space_time, "char_space")>>
                   ELSE <<>>))
         \o TextLoop(tm, txt, i + 1)

text_to_morse_audio(tm, txt) ==
    <<generate_silence(Rat(4, 5), "lead_in")>>
    \o TextLoop(tm, txt, 1)
    \o <<generate_silence(Rat(6, 5), "trail")>>

\* np.zeros and np.linspace raise ValueError on a negative sample count
AudioRaises(a) == \E i \in 1..Len(a) : a[i].n < 0

---------------------------------------------------------------------------
(* Encoding one text with one generator *)

\* small values around zero, and the defaults 20 and 10 of the constructor
WpmInputs == ((-1)..MaxWpm) \cup {10, 20}

TextAlphabet == {"K", "E", " ", "#"}

PARIS == <<"P", "A", "R", "I", "S", " ">>

RECURSIVE SeqsUpTo(_, _)
SeqsUpTo(S, k) ==
    IF k = 0 THEN {<<>>}
    ELSE LET shorter == SeqsUpTo(S, k - 1)
         IN  shorter \cup {Append(s, x) : s \in {t \in shorter : Len(t) = k - 1}, x \in S}

Texts == SeqsUpTo(TextAlphabet, MaxTextLen) \cup {PARIS}

NoWeights == [none |-> TRUE]

WeightList(w) == [none |-> FALSE, list |-> w]

\* no pattern requested
PatternIdle ==
    /\ char_set = <<>>
    /\ num_chars = 50
    /\ frequency_mode = "uniform"
    /\ weights = NoWeights
    /\ rng = 0
    /\ results = <<>>

\* no loop iteration handed to a worker
WorkersIdle ==
    /\ worker_pc = <<>>
    /\ worker_text = <<>>
    /\ accesses = {}

\* create_all not running
BatchIdle ==
    /\ idx = 0
    /\ lesson_num = 0
    /\ file_num = 0
    /\ files_per_lesson = 0
    /\ files = <<>>
    /\ failed = {}
    /\ WorkersIdle

NoFile == [written |-> FALSE]

WavFile(d) == [written |-> TRUE, data |-> d]

NoBuffer == [none |-> TRUE]

\* generate_tone / generate_silence not called on their own
ToneIdle == duration = RInt(0) /\ buffer = NoBuffer

NoWindow == [none |-> TRUE]

\* an empty mapping: no settings key, no statistics entry, no cache entry
Empty == <<>>

\* no KochWindow constructed, no progress stored
WindowIdle == window = NoWindow /\ settings = Empty

\* no StatisticsManager constructed
StatsIdle ==
    /\ data = Empty
    /\ lesson_cache = Empty
    /\ overall_cache = Empty
    /\ returned = Empty
    /\ clock = 0

ExtraIdle == ToneIdle /\ WindowIdle /\ StatsIdle

\* generate_single_character_pattern not called on its own
DrillIdle == drill_char = "" /\ drill_count = 0

\* no buffer handed to save_audio
SaveIdle == samples = <<>> /\ wav = NoFile

InitTimingRun ==
    /\ pc = "new"
    /\ char_wpm \in WpmInputs
    /\ effective_wpm \in WpmInputs
    /\ timing = NoTiming
    /\ error = "none"
    /\ console = <<>>
    /\ text \in Texts
    /\ audio = <<>>
    /\ SaveIdle
    /\ DrillIdle
    /\ ExtraIdle
    /\ PatternIdle
    /\ BatchIdle

\* MorseCodeGenerator(char_wpm, effective_wpm)
Construct ==
    /\ pc = "new"
    /\ IF InitRaises(char_wpm, effective_wpm)
       THEN /\ error' = "ZeroDivisionError"
            /\ pc' = "raised"
            /\ timing' = IF char_wpm = 0 THEN NoTiming ELSE PartialTiming(char_wpm)
       ELSE /\ timing' = InitTiming(char_wpm, effective_wpm)
            /\ pc' = "ready"
            /\ UNCHANGED error
    /\ UNCHANGED <<char_wpm, effective_wpm, text, audio, console, saveVars, drillVars, extraVars, patternVars, batchVars>>

\* generator.text_to_morse_audio(text)
TextToMorseAudio ==
    /\ pc = "ready"
    /\ LET a == text_to_morse_audio(timing, text)
       IN  IF AudioRaises(a)
           THEN /\ error' = "ValueError"
                /\ pc' = "raised"
                /\ UNCHANGED audio
           ELSE /\ audio' = a
                /\ pc' = "encoded"
                /\ UNCHANGED error
    /\ UNCHANGED <<char_wpm, effective_wpm, timing, text, console, saveVars, drillVars, extraVars, patternVars, batchVars>>

NextTimingRun == Construct \/ TextToMorseAudio

SpecTiming == InitTimingRun /\ [][NextTimingRun]_vars

---------------------------------------------------------------------------
(* save_audio on a buffer of samples.  A float sample is modelled by an   *)
(* integer multiple of an arbitrary unit; normalisation is scale-free.    *)

MaxAbs(buf) ==
    LET mags == {Abs(buf[i]) : i \in 1..Len(buf)}
    IN  CHOOSE m \in mags : \A x \in mags : x <= m

\* save_audio_data scaling to 32768
save_audio_data_Scale32768(buf) ==
    [i \in 1..Len(buf) |-> IntTrunc(Rat(buf[i] * 32768, MaxAbs(buf)))]

\* np.int16(audio / np.max(np.abs(audio)) * 32767) for a buffer with a
\* non-zero sample: the float-to-int16 cast truncates toward zero
save_audio_data(buf) ==
    [i \in 1..Len(buf) |-> IntTrunc(Rat(buf[i] * 32767, MaxAbs(buf)))]

\* 0.0 / 0.0 is nan in numpy (a RuntimeWarning, no exception); what the
\* cast of nan to int16 stores is not defined and differs between builds
NanAsInt16 == {-32768, 0}

Buffers == SeqsUpTo((-MaxAmp)..MaxAmp, MaxBufLen)

EncodeIdle ==
    /\ char_wpm = 20
    /\ effective_wpm = 10
    /\ timing = NoTiming
    /\ text = <<>>
    /\ audio = <<>>

InitSave ==
    /\ pc = "save"
    /\ error = "none"
    /\ console = <<>>
    /\ samples \in Buffers
    /\ wav = NoFile
    /\ DrillIdle
    /\ ExtraIdle
    /\ EncodeIdle
    /\ PatternIdle
    /\ BatchIdle

\* generator.save_audio(samples, filename)
SaveAudio ==
    /\ pc = "save"
    /\ pc' = "saved"
    /\ IF Len(samples) = 0
       THEN /\ console' = Append(console, [msg |-> "warning: audio is empty, save skipped"])
            /\ UNCHANGED wav
       ELSE IF MaxAbs(samples) = 0
       THEN /\ \E v \in NanAsInt16 : wav' = WavFile([i \in 1..Len(samples) |-> v])
            /\ console' = Append(console, [msg |-> "RuntimeWarning: invalid value encountered in divide"])
       ELSE /\ wav' = WavFile(save_audio_data(samples))
            /\ UNCHANGED console
    /\ UNCHANGED <<error, samples, encodeVars, patternVars, batchVars, drillVars, extraVars>>

NextSave == SaveAudio

SpecSave == InitSave /\ [][NextSave]_vars

---------------------------------------------------------------------------
(* Practice patterns: get_character_weights and generate_pattern.          *)
(* A weight is kept in hundredths (1.0 is 100, 1.5 is 150, 0.15 is 15).    *)
(* Module random is a deterministic generator with one process-wide state, *)
(* seeded from the system when the module is imported; it is modelled by a *)
(* small linear congruential generator over 0..RngStates-1.                *)

\* [x] * k
Repeat(x, k) == [i \in 1..(IF k > 0 THEN k ELSE 0) |-> x]

\* morse_code.get(char, '.')
MorseOrDot(char) == IF char \in DOMAIN morse_code THEN morse_code[char] ELSE <<".">>

\* get_character_weights giving the new character 3 times the weight
get_character_weights_Focus3(cs, mode) ==
    IF mode = "uniform" THEN NoWeights
    ELSE IF mode = "new_char_focus" THEN WeightList(Repeat(100, Len(cs) - 1) \o <<300>>)
    ELSE IF mode = "gradual" THEN WeightList(Repeat(100, Len(cs) - 1) \o <<150>>)
    ELSE IF mode = "difficulty"
    THEN WeightList([i \in 1..Len(cs) |-> 100 + Len(MorseOrDot(cs[i])) * 15])
    ELSE NoWeights

get_character_weights(cs, mode) ==
    LET n == Len(cs)
    IN  IF mode = "uniform" THEN NoWeights
        ELSE IF mode = "new_char_focus" THEN WeightList(Repeat(100, n - 1) \o <<200>>)
        ELSE IF mode = "gradual" THEN WeightList(Repeat(100, n - 1) \o <<150>>)
        ELSE IF mode = "difficulty"
        THEN WeightList([i \in 1..n |-> 100 + Len(MorseOrDot(cs[i])) * 15])
        ELSE NoWeights

\* "if weights:" is false for None and for the empty list
Truthy(w) == ~w.none /\ Len(w.list) > 0

\* the generator's next state; random() returns RandomNext(s) / RngStates
RandomNext(s) == (5 * s + 3) % RngStates

\* random.choice(seq): seq[_randbelow(len(seq))], as a 1-based index
ChoiceIndex(n, s) == ((s * n) \div RngStates) + 1

RECURSIVE SumInts(_, _)
SumInts(w, j) == IF j = 0 THEN 0 ELSE w[j] + SumInts(w, j - 1)

\* list(accumulate(weights))
CumWeights(w) == [j \in 1..Len(w) |-> SumInts(w, j)]

\* random.choices: bisect(cum_weights, random() * total, 0, n - 1), as a
\* 1-based index
ChoicesIndex(cum, s) ==
    LET n == Len(cum)
        total == cum[n]
    IN  Cardinality({j \in 1..(n - 1) : cum[j] * RngStates <= s * total}) + 1

\* k draws, with replacement, each advancing the generator
RECURSIVE DrawChars(_, _, _, _)
DrawChars(cs, cum, s, k) ==
    IF k = 0 THEN [chars |-> <<>>, rng |-> s]
    ELSE LET s1 == RandomNext(s)
             c == IF cum = <<>> THEN cs[ChoiceIndex(Len(cs), s1)]
                  ELSE cs[ChoicesIndex(cum, s1)]
             rest == DrawChars(cs, cum, s1, k - 1)
         IN  [chars |-> <<c>> \o rest.chars, rng |-> rest.rng]

\* GroupSeparator adding the space after every group
GroupSeparator_Always(i) == <<" ">>

\* "if i < 9: text += ' '"
GroupSeparator(i) == IF i < 9 THEN <<" ">> ELSE <<>>

\* the loop "for i in range(10)" from iteration i on
RECURSIVE PatternLoop(_, _, _, _)
PatternLoop(cs, cum, s, i) ==
    IF i > 9 THEN [text |-> <<>>, rng |-> s]
    ELSE LET group == DrawChars(cs, cum, s, 5)
             rest == PatternLoop(cs, cum, group.rng, i + 1)
         IN  [text |-> group.chars \o GroupSeparator(i) \o rest.text, rng |-> rest.rng]

\* random.choices raises ValueError when the weights do not match the
\* population or sum to nothing; random.choice raises IndexError on an
\* empty sequence
PatternError(cs, w) ==
    IF Truthy(w)
    THEN (IF Len(w.list) # Len(cs) \/ SumInts(w.list, Len(w.list)) <= 0
          THEN "ValueError" ELSE "none")
    ELSE (IF Len(cs) = 0 THEN "IndexError" ELSE "none")

\* the text generate_pattern builds and the generator state it leaves; the
\* body never reads num_chars
generate_pattern(cs, num_chars_arg, w, s) ==
    PatternLoop(cs, IF Truthy(w) THEN CumWeights(w.list) ELSE <<>>, s, 0)

Modes == {"uniform", "new_char_focus", "gradual", "difficulty", "other"}

SetAlphabet == {"K", "E", "#", " "}

CharSets == SeqsUpTo(SetAlphabet, MaxCharSet)

MaxNumChars == 2

\* small counts, and the default 50
NumChars == (0..MaxNumChars) \cup {50}

InitPattern ==
    /\ pc = "start"
    /\ error = "none"
    /\ console = <<>>
    /\ char_wpm = 20
    /\ effective_wpm = 10
    /\ timing = InitTiming(20, 10)
    /\ text = <<>>
    /\ audio = <<>>
    /\ SaveIdle
    /\ DrillIdle
    /\ ExtraIdle
    /\ char_set \in CharSets
    /\ num_chars \in NumChars
    /\ frequency_mode \in Modes
    /\ weights = NoWeights
    /\ rng \in 0..MaxSeed
    /\ results = <<>>
    /\ BatchIdle

\* trainer.get_character_weights(char_set, trainer.frequency_mode)
GetCharacterWeights ==
    /\ pc = "start"
    /\ weights' = get_character_weights(char_set, frequency_mode)
    /\ pc' = "weighted"
    /\ UNCHANGED <<error, console, encodeVars, saveVars, drillVars, extraVars, char_set, frequency_mode, num_chars, rng,
                   results, batchVars>>

\* generator.generate_pattern(char_set, num_chars, weights)
GeneratePattern ==
    /\ pc = "weighted"
    /\ Len(results) < MaxCalls
    /\ IF PatternError(char_set, weights) # "none"
       THEN /\ error' = PatternError(char_set, weights)
            /\ pc' = "raised"
            /\ UNCHANGED <<text, audio, rng, results>>
       ELSE LET r == generate_pattern(char_set, num_chars, weights, rng)
            IN  /\ text' = r.text
                /\ rng' = r.rng
                /\ audio' = text_to_morse_audio(timing, r.text)
                /\ results' = Append(results, r.text)
                /\ UNCHANGED <<error, pc>>
    /\ UNCHANGED <<console, char_wpm, effective_wpm, timing, saveVars, drillVars, extraVars, char_set,
                   frequency_mode, num_chars, weights, batchVars>>

NextPattern == GetCharacterWeights \/ GeneratePattern

SpecPattern == InitPattern /\ [][NextPattern]_vars

---------------------------------------------------------------------------
(* KochMethodTrainer.create_all: the character drills, then the lessons *)

KOCH_SEQUENCE ==
    <<"K", "M", "U", "R", "E", "S", "N", "A", "P", "T", "L", "W", "I", ".", "J", "Z", "=", "F", "O", "Y", ",", "V", "G", "5", "/", "Q", "9", "2", "H", "3", "8", "B", "?", "4", "7", "C", "1", "D", "6", "0", "X">>

\* Python slice seq[:k]
Prefix(seq, k) == SubSeq(seq, 1, IF k < Len(seq) THEN k ELSE Len(seq))

\* LessonCharSet taking one character too few
LessonCharSet_OffByOne(n) == Prefix(KOCH_SEQUENCE, n)

\* self.KOCH_SEQUENCE[:lesson_num + 1]
LessonCharSet(n) == Prefix(KOCH_SEQUENCE, n + 1)

\* generate_single_character_pattern with a space after each character
generate_single_character_pattern_Spaced(char, count) ==
    [i \in 1..(IF count > 0 THEN 2 * count ELSE 0) |-> IF i % 2 = 1 THEN char ELSE " "]

\* text = char * count
generate_single_character_pattern(char, count) == Repeat(char, count)

\* samples of the segments a[lo..hi]
RECURSIVE SamplesBetween(_, _, _)
SamplesBetween(a, lo, hi) ==
    IF lo > hi THEN 0
    ELSE IF lo = hi THEN a[lo].n
    ELSE LET mid == (lo + hi) \div 2
         IN  SamplesBetween(a, lo, mid) + SamplesBetween(a, mid + 1, hi)

\* len(audio)
TotalSamples(a) == SamplesBetween(a, 1, Len(a))

\* What save_audio does with an audio array, before wavfile.write: it
\* returns without writing when the array is empty, divides by zero when
\* no tone gave a sample, and normalises otherwise.
SaveAudioCase(a) ==
    IF TotalSamples(a) = 0 THEN "skip"
    ELSE IF \A j \in 1..Len(a) : a[j].kind = "silence" \/ a[j].n = 0 THEN "nan"
    ELSE "normalised"

\* the wave file of an audio array: as many int16 samples as the array has
WavOf(a) == [kind |-> "wav", nsamples |-> TotalSamples(a), data |-> SaveAudioCase(a)]

TxtOf(txt) == [kind |-> "txt", text |-> txt]

\* CharacterPath numbering the drill files from 1
CharacterPath_FromOne(i) == <<"Character", 0, i + 1, "wav">>

\* Config.get_character_audio: the path the trainer reads drill char_index from
get_character_audio(char_index) == <<"Character", 0, char_index, "wav">>

\* Character/koch-<i>.wav
CharacterPath(i) == <<"Character", 0, i, "wav">>

\* LessonPath numbering the text files one higher than the audio files
LessonPath_TextShifted(n, k, ext) ==
    <<"Lesson", n, IF ext = "txt" THEN k + 1 ELSE k, ext>>

\* Lesson-<n>/koch-<k>.<ext>
LessonPath(n, k, ext) == <<"Lesson", n, k, ext>>

\* files with path p (re)written
Written(fs, p, content) ==
    [q \in (DOMAIN fs) \cup {p} |-> IF q = p THEN content ELSE fs[q]]

InitBatch ==
    /\ pc = "character_lessons"
    /\ error = "none"
    /\ console = <<>>
    /\ char_wpm = 20
    /\ effective_wpm = 10
    /\ timing = InitTiming(20, 10)
    /\ text = <<>>
    /\ audio = <<>>
    /\ SaveIdle
    /\ DrillIdle
    /\ ExtraIdle
    /\ char_set = <<>>
    /\ num_chars = 50
    /\ frequency_mode \in Modes
    /\ weights = NoWeights
    /\ rng \in 0..MaxBatchSeed
    /\ results = <<>>
    /\ idx = 0
    /\ lesson_num = 1
    /\ file_num = 1
    /\ files_per_lesson \in 0..MaxFilesPerLesson
    /\ files = <<>>
    /\ failed = {}
    /\ WorkersIdle

\* the files after save_audio(a, path) returned
AfterSaveAudio(fs, path, a) ==
    IF SaveAudioCase(a) = "skip" THEN fs ELSE Written(fs, path, WavOf(a))

\* what save_audio(a, path) prints
SaveWarning(a) ==
    IF SaveAudioCase(a) = "skip"
    THEN <<[msg |-> "warning: audio is empty, save skipped"]>>
    ELSE <<>>

\* one iteration of the loop of create_character_lessons; wavfile.write
\* may raise OSError, which nothing in the batch catches
CharacterLesson ==
    /\ pc = "character_lessons"
    /\ LET char == KOCH_SEQUENCE[idx + 1]
           t == generate_single_character_pattern(char, 15)
           a == text_to_morse_audio(timing, t)
           audio_file == CharacterPath(idx)
       IN  /\ text' = t
           /\ audio' = a
           /\ \/ /\ files' = AfterSaveAudio(files, audio_file, a)
                 /\ console' = console \o SaveWarning(a)
                                 \o <<[msg |-> "drill", idx |-> idx, char |-> char]>>
                 /\ idx' = idx + 1
                 /\ pc' = IF idx + 1 < Len(KOCH_SEQUENCE) THEN pc ELSE "begin_lesson"
                 /\ UNCHANGED <<failed, error>>
              \/ /\ SaveAudioCase(a) # "skip"
                 /\ failed' = failed \cup {audio_file}
                 /\ error' = "OSError"
                 /\ pc' = "raised"
                 /\ UNCHANGED <<files, console, idx>>
    /\ UNCHANGED <<char_wpm, effective_wpm, timing, saveVars, drillVars, extraVars, patternVars,
                   lesson_num, file_num, files_per_lesson, workerVars>>

\* the head of one iteration of "for lesson_num in range(1, 41)"; with no
\* practice file to generate the iteration is over at once
BeginLesson ==
    /\ pc = "begin_lesson"
    /\ LET cs == LessonCharSet(lesson_num)
           head == [msg |-> "lesson", lesson |-> lesson_num, chars |-> cs]
           tail == [msg |-> "lesson done", lesson |-> lesson_num]
       IN  /\ char_set' = cs
           /\ weights' = get_character_weights(cs, frequency_mode)
           /\ IF files_per_lesson >= 1
              THEN /\ console' = Append(console, head)
                   /\ pc' = "practice"
                   /\ UNCHANGED lesson_num
              ELSE /\ console' = console \o <<head, tail>>
                   /\ lesson_num' = lesson_num + 1
                   /\ pc' = IF lesson_num < 40 THEN pc ELSE "summary"
    /\ file_num' = 1
    /\ UNCHANGED <<error, encodeVars, saveVars, drillVars, extraVars, frequency_mode, num_chars, rng, results,
                   idx, files_per_lesson, files, failed, workerVars>>

\* where the loops stand after practice file file_num of lesson
\* lesson_num, and what the outer loop prints then
AfterPractice(printed) ==
    IF file_num < files_per_lesson
    THEN /\ file_num' = file_num + 1
         /\ console' = printed
         /\ UNCHANGED <<lesson_num, pc>>
    ELSE /\ file_num' = 1
         /\ console' = Append(printed, [msg |-> "lesson done", lesson |-> lesson_num])
         /\ lesson_num' = lesson_num + 1
         /\ pc' = IF lesson_num < 40 THEN "begin_lesson" ELSE "summary"

\* one iteration of "for file_num in range(1, files_per_lesson + 1)":
\* generate_pattern, save_audio, save_text; either write may raise OSError
PracticeFile ==
    /\ pc = "practice"
    /\ IF PatternError(char_set, weights) # "none"
       THEN /\ error' = PatternError(char_set, weights)
            /\ pc' = "raised"
            /\ UNCHANGED <<text, audio, rng, console, files, failed, file_num, lesson_num>>
       ELSE LET r == generate_pattern(char_set, 50, weights, rng)
                a == text_to_morse_audio(timing, r.text)
                audio_file == LessonPath(lesson_num, file_num, "wav")
                text_file == LessonPath(lesson_num, file_num, "txt")
            IN  /\ text' = r.text
                /\ rng' = r.rng
                /\ audio' = a
                /\ \/ /\ files' = Written(AfterSaveAudio(files, audio_file, a),
                                          text_file, TxtOf(r.text))
                      /\ AfterPractice(console \o SaveWarning(a))
                      /\ UNCHANGED <<failed, error>>
                   \/ /\ SaveAudioCase(a) # "skip"
                      /\ failed' = failed \cup {audio_file}
                      /\ error' = "OSError"
                      /\ pc' = "raised"
                      /\ UNCHANGED <<files, console, file_num, lesson_num>>
                   \/ /\ files' = AfterSaveAudio(files, audio_file, a)
                      /\ console' = console \o SaveWarning(a)
                      /\ failed' = failed \cup {text_file}
                      /\ error' = "OSError"
                      /\ pc' = "raised"
                      /\ UNCHANGED <<file_num, lesson_num>>
    /\ UNCHANGED <<char_wpm, effective_wpm, timing, saveVars, drillVars, extraVars, char_set,
                   frequency_mode, num_chars, weights, results, idx, files_per_lesson, workerVars>>

\* print_summary, and the return of create_all
Finish ==
    /\ pc = "summary"
    /\ pc' = "done"
    /\ console' = Append(console, [msg |-> "summary"])
    /\ UNCHANGED <<error, encodeVars, saveVars, drillVars, extraVars, patternVars, batchVars>>

NextBatch == CharacterLesson \/ BeginLesson \/ PracticeFile \/ Finish

SpecBatch == InitBatch /\ [][NextBatch]_vars

---------------------------------------------------------------------------
(* The iterations of the two loops of create_all handed to independent     *)
(* workers that run in any interleaving, with no synchronisation.  A       *)
(* worker is named by the audio file of its iteration and runs the loop    *)
(* body: generate the text, then encode and save it.  A worker's call of   *)
(* generate_pattern is taken as one step.                                  *)

MaxParLessons == 2

MaxParFiles == 1

\* the iterations of "for idx, char in enumerate(self.KOCH_SEQUENCE)" that
\* drill the characters of the lessons run
DrillWorkers == {CharacterPath(i) : i \in 0..MaxParLessons}

\* the iterations of the inner loop of create_lessons
PracticeWorkers ==
    {LessonPath(n, k, "wav") : n \in 1..MaxParLessons, k \in 1..MaxParFiles}

Workers == DrillWorkers \cup PracticeWorkers

\* the hidden generator instance of module random
RandomState == <<"random", 0, 0, "state">>

\* text_file of the iteration whose audio_file is w
TextFileOf(w) == LessonPath(w[2], w[3], "txt")

InitParallel ==
    /\ pc = "parallel"
    /\ error = "none"
    /\ console = <<>>
    /\ char_wpm = 20
    /\ effective_wpm = 10
    /\ timing = InitTiming(20, 10)
    /\ text = <<>>
    /\ audio = <<>>
    /\ SaveIdle
    /\ DrillIdle
    /\ ExtraIdle
    /\ char_set = <<>>
    /\ num_chars = 50
    /\ frequency_mode \in Modes
    /\ weights = NoWeights
    /\ rng \in 0..MaxBatchSeed
    /\ results = <<>>
    /\ idx = 0
    /\ lesson_num = 0
    /\ file_num = 0
    /\ files_per_lesson = MaxParFiles
    /\ files = <<>>
    /\ failed = {}
    /\ worker_pc = [w \in Workers |-> "todo"]
    /\ worker_text = [w \in Workers |-> <<>>]
    /\ accesses = {}

\* generate_single_character_pattern(char, count=15) in worker w: it reads
\* the Morse table and the durations only
DrillGenerate(w) ==
    /\ w \in DrillWorkers
    /\ worker_pc[w] = "todo"
    /\ worker_text' =
          [worker_text EXCEPT ![w] =
              generate_single_character_pattern(KOCH_SEQUENCE[w[3] + 1], 15)]
    /\ worker_pc' = [worker_pc EXCEPT ![w] = "generated"]
    /\ UNCHANGED <<pc, error, console, encodeVars, saveVars, drillVars, extraVars, patternVars,
                   idx, lesson_num, file_num, files_per_lesson, files, failed,
                   accesses>>

\* generate_pattern(char_set, num_chars=50, weights=weights) in worker w:
\* every draw reads and advances the generator of module random
PracticeGenerate(w) ==
    /\ w \in PracticeWorkers
    /\ worker_pc[w] = "todo"
    /\ LET cs == LessonCharSet(w[2])
           wts == get_character_weights(cs, frequency_mode)
       IN  IF PatternError(cs, wts) # "none"
           THEN /\ error' = PatternError(cs, wts)
                /\ worker_pc' = [worker_pc EXCEPT ![w] = "raised"]
                /\ UNCHANGED <<rng, worker_text, accesses>>
           ELSE LET r == generate_pattern(cs, 50, wts, rng)
                IN  /\ rng' = r.rng
                    /\ worker_text' = [worker_text EXCEPT ![w] = r.text]
                    /\ worker_pc' = [worker_pc EXCEPT ![w] = "generated"]
                    /\ accesses' = accesses \cup {[worker |-> w, loc |-> RandomState]}
                    /\ UNCHANGED error
    /\ UNCHANGED <<pc, console, encodeVars, saveVars, drillVars, extraVars, char_set, frequency_mode, num_chars,
                   weights, results, idx, lesson_num, file_num, files_per_lesson,
                   files, failed>>

\* save_audio, and save_text for a practice file, in worker w
WorkerSave(w) ==
    /\ worker_pc[w] = "generated"
    /\ LET a == text_to_morse_audio(timing, worker_text[w])
           saved == AfterSaveAudio(files, w, a)
       IN  IF w \in DrillWorkers
           THEN /\ files' = saved
                /\ accesses' = accesses \cup {[worker |-> w, loc |-> w]}
           ELSE /\ files' = Written(saved, TextFileOf(w), TxtOf(worker_text[w]))
                /\ accesses' = accesses \cup {[worker |-> w, loc |-> w],
                                              [worker |-> w, loc |-> TextFileOf(w)]}
    /\ worker_pc' = [worker_pc EXCEPT ![w] = "done"]
    /\ UNCHANGED <<pc, error, console, encodeVars, saveVars, drillVars, extraVars, patternVars,
                   idx, lesson_num, file_num, files_per_lesson, failed,
                   worker_text>>

NextParallel ==
    \E w \in Workers : DrillGenerate(w) \/ PracticeGenerate(w) \/ WorkerSave(w)

SpecParallel == InitParallel /\ [][NextParallel]_vars

---------------------------------------------------------------------------
(* generate_single_character_pattern called on its own *)

MaxCount == 3

\* every key of the Morse table, and a character without an entry
DrillChars == DOMAIN morse_code \cup {"#"}

\* counts around zero, and the default 15
Counts == ((-1)..MaxCount) \cup {15}

InitDrill ==
    /\ pc = "ready"
    /\ error = "none"
    /\ console = <<>>
    /\ char_wpm \in WpmInputs
    /\ effective_wpm \in WpmInputs
    /\ ~InitRaises(char_wpm, effective_wpm)
    /\ timing = InitTiming(char_wpm, effective_wpm)
    /\ text = <<>>
    /\ audio = <<>>
    /\ SaveIdle
    /\ drill_char \in DrillChars
    /\ drill_count \in Counts
    /\ ExtraIdle
    /\ PatternIdle
    /\ BatchIdle

\* generator.generate_single_character_pattern(drill_char, drill_count)
GenerateSingleCharacterPattern ==
    /\ pc = "ready"
    /\ LET t == generate_single_character_pattern(drill_char, drill_count)
           a == text_to_morse_audio(timing, t)
       IN  IF AudioRaises(a)
           THEN /\ error' = "ValueError"
                /\ pc' = "raised"
                /\ UNCHANGED <<text, audio>>
           ELSE /\ text' = t
                /\ audio' = a
                /\ pc' = "drilled"
                /\ UNCHANGED error
    /\ UNCHANGED <<char_wpm, effective_wpm, timing, console, saveVars, drillVars, extraVars,
                   patternVars, batchVars>>

NextDrill == GenerateSingleCharacterPattern

SpecDrill == InitDrill /\ [][NextDrill]_vars

---------------------------------------------------------------------------
(* generate_tone and generate_silence called on their own.  Durations are  *)
(* thirds of a sample period, near zero and near twice the fade length.    *)

MaxToneSlack == 20

ToneDurations ==
    {Rat(m, 3 * sample_rate) : m \in (-3)..MaxToneSlack}
    \cup {Rat(6 * fade_samples + m, 3 * sample_rate) : m \in (-MaxToneSlack)..MaxToneSlack}

MaterialIdle ==
    /\ EncodeIdle
    /\ SaveIdle
    /\ DrillIdle
    /\ PatternIdle
    /\ BatchIdle

InitTone ==
    /\ pc = "tone_call"
    /\ error = "none"
    /\ console = <<>>
    /\ MaterialIdle
    /\ WindowIdle
    /\ StatsIdle
    /\ duration \in ToneDurations
    /\ buffer = NoBuffer

\* generator.generate_tone(duration); np.linspace raises ValueError on a
\* negative number of samples
GenerateTone ==
    /\ pc = "tone_call"
    /\ IF NumSamples(duration) < 0
       THEN /\ error' = "ValueError"
            /\ pc' = "raised"
            /\ UNCHANGED buffer
       ELSE /\ buffer' = generate_tone(duration, "tone")
            /\ pc' = "tone_returned"
            /\ UNCHANGED error
    /\ UNCHANGED <<console, materialVars, duration, windowVars, statsVars>>

\* generator.generate_silence(duration); np.zeros raises ValueError on a
\* negative number of samples
GenerateSilence ==
    /\ pc = "tone_call"
    /\ IF NumSamples(duration) < 0
       THEN /\ error' = "ValueError"
            /\ pc' = "raised"
            /\ UNCHANGED buffer
       ELSE /\ buffer' = generate_silence(duration, "silence")
            /\ pc' = "silence_returned"
            /\ UNCHANGED error
    /\ UNCHANGED <<console, materialVars, duration, windowVars, statsVars>>

NextTone == GenerateTone \/ GenerateSilence

SpecTone == InitTone /\ [][NextTone]_vars

---------------------------------------------------------------------------
(* Properties of the timing model and the encoder *)

Durations(a) == [i \in 1..Len(a) |-> a[i].dur]

\* the segments between the lead-in and the trailing silence
Content(a) == SubSeq(a, 2, Len(a) - 1)

Encoded == pc = "encoded"

\* C1: Farnsworth identity.  For every integer pair with
\* 0 < effective_wpm <= char_wpm, the content text_to_morse_audio emits for
\* "PARIS " (everything between the lead-in and the trailing silence) lasts
\* exactly 60 / effective_wpm seconds in exact rational arithmetic.
C1_FarnsworthIdentity ==
    (Encoded /\ text = PARIS /\ 0 < effective_wpm /\ effective_wpm <= char_wpm)
        => RSum(Durations(Content(audio))) = Rat(60, effective_wpm)

C1_Witness ==
    /\ Encoded
    /\ text = PARIS
    /\ 0 < effective_wpm
    /\ effective_wpm < char_wpm
    /\ Len(SelectSeq(audio, LAMBDA g : g.role = "char_space")) = 4
    /\ Len(SelectSeq(audio, LAMBDA g : g.role = "word_space")) = 1

\* C2: constructing the timing model fails with an InvalidParameter error,
\* and yields no duration constants, whenever char_wpm <= 0,
\* effective_wpm <= 0 or effective_wpm > char_wpm.
C2_InvalidParameterRejected ==
    (pc # "new" /\ (char_wpm <= 0 \/ effective_wpm <= 0 \/ effective_wpm > char_wpm))
        => (error = "InvalidParameter" /\ timing = NoTiming)

\* The gaps the text asks for, position by position: a word gap for a
\* space, a character gap after a character that is not the last one and
\* is not followed by a space.
RECURSIVE GapsOfText(_, _)
GapsOfText(txt, i) ==
    IF i > Len(txt) THEN <<>>
    ELSE (IF txt[i] = " " THEN <<[role |-> "word_space", at |-> i]>>
          ELSE IF i # Len(txt) /\ txt[i + 1] # " " THEN <<[role |-> "char_space", at |-> i]>>
          ELSE <<>>)
         \o GapsOfText(txt, i + 1)

\* number of dots and dashes of the characters txt[1..k]
RECURSIVE TonesUpTo(_, _)
TonesUpTo(txt, k) ==
    IF k = 0 THEN 0
    ELSE TonesUpTo(txt, k - 1)
         + (IF txt[k] # " " /\ txt[k] \in DOMAIN morse_code THEN Len(morse_code[txt[k]]) ELSE 0)

IsGap(g) == g.role \in {"char_space", "word_space"}

GapIndexes(a) == {j \in 1..Len(a) : IsGap(a[j])}

TonesBefore(a, j) == Cardinality({m \in 1..(j - 1) : a[m].kind = "tone"})

\* Every non-space character of the text has a Morse table entry.
AllKnown(txt) == \A i \in 1..Len(txt) : txt[i] \in DOMAIN morse_code

\* The emission rule of text_to_morse_audio: lead-in first, trailing
\* silence last, and in between, in text order, one word gap per space and
\* one character gap after each character that is neither the last one nor
\* followed by a space, each placed after the tones of the characters up to
\* it.
GapRule ==
    LET gaps == SelectSeq(audio, IsGap)
        want == GapsOfText(text, 1)
        at == GapIndexes(audio)
        \* audio index of the k-th gap
        pos(k) == CHOOSE j \in at : Cardinality({m \in at : m <= j}) = k
    IN  /\ Len(audio) >= 2
        /\ audio[1] = [kind |-> "silence", dur |-> Rat(4, 5),
                       n |-> NumSamples(Rat(4, 5)), role |-> "lead_in"]
        /\ audio[Len(audio)] = [kind |-> "silence", dur |-> Rat(6, 5),
                                n |-> NumSamples(Rat(6, 5)), role |-> "trail"]
        /\ \A j \in 2..(Len(audio) - 1) : audio[j].role \notin {"lead_in", "trail"}
        /\ Len(gaps) = Len(want)
        /\ \A k \in 1..Len(want) :
              /\ gaps[k].role = want[k].role
              /\ gaps[k].kind = "silence"
              /\ gaps[k].dur = (IF want[k].role = "word_space"
                                THEN timing.word_space_time
                                ELSE timing.char_space_time)
              /\ TonesBefore(audio, pos(k)) = TonesUpTo(text, want[k].at)
        /\ TonesBefore(audio, Len(audio)) = TonesUpTo(text, Len(text))

\* no character gap directly before a word gap or the trailing silence
NoStackedGap ==
    \A j \in 1..(Len(audio) - 1) :
        audio[j].role = "char_space" => audio[j + 1].role \notin {"word_space", "trail"}

\* C7 as stated: gap ordering in text_to_morse_audio.  For any text the
\* audio is the 0.8 s lead-in, then per character a word_space_time silence
\* for a space or the character's audio followed by a char_space_time
\* silence exactly when it is not the last character and the next one is
\* not a space, then the 1.2 s trailing silence; so a character gap is
\* never emitted directly before a word gap or before the trailing silence.
C7_GapOrdering_Original == Encoded => (GapRule /\ NoStackedGap)

\* C7 (amended): the emission rule holds for any text; a character gap
\* never directly precedes a word gap or the trailing silence when every
\* character of the text has a Morse table entry.
C7_GapOrdering == Encoded => (GapRule /\ (AllKnown(text) => NoStackedGap))

C7_Witness ==
    /\ Encoded
    /\ text = <<"K", "E", " ">>
    /\ Len(SelectSeq(audio, LAMBDA g : g.role = "char_space")) = 1
    /\ Len(SelectSeq(audio, LAMBDA g : g.role = "word_space")) = 1

\* the characters of the text that have a Morse table entry, in order
KnownOnly(txt) == SelectSeq(txt, LAMBDA c : c \in DOMAIN morse_code)

\* the tones and element gaps of an audio array, in order
CharacterAudio(a) == SelectSeq(a, LAMBDA g : g.role \in {"dit", "dah", "element_space"})

EncodeReturned == pc \in {"encoded", "raised"} /\ ~InitRaises(char_wpm, effective_wpm)

\* C12: an unknown character is non-fatal.  With a generator built from
\* positive speeds, for any text with characters that are not keys of the
\* Morse table, char_to_morse_audio returns an empty array for each of
\* them, text_to_morse_audio raises nothing, and the known characters and
\* the spaces are encoded in their order with the tones and gaps they get
\* when the unknown characters contribute no tone: the tones are those of
\* the text without the unknown characters, and the gaps follow the
\* emission rule, counted over all characters.
C12_UnknownCharacterNonFatal ==
    (EncodeReturned /\ char_wpm > 0 /\ effective_wpm > 0 /\ ~AllKnown(text)) =>
        /\ \A i \in 1..Len(text) :
              text[i] \notin DOMAIN morse_code => char_to_morse_audio(timing, text[i]) = <<>>
        /\ error = "none"
        /\ Encoded
        /\ CharacterAudio(audio) =
              CharacterAudio(text_to_morse_audio(timing, KnownOnly(text)))
        /\ GapRule

C12_Witness ==
    /\ Encoded
    /\ char_wpm = 20
    /\ effective_wpm = 10
    /\ text = <<"K", "#", "E">>
    /\ Len(SelectSeq(audio, LAMBDA g : g.kind = "tone")) = 4
    /\ Len(SelectSeq(audio, LAMBDA g : g.role = "char_space")) = 2

Constructed == pc # "new" /\ error # "ZeroDivisionError"

\* C16: timing ordering.  For every pair with 0 < effective_wpm <= char_wpm
\* the durations of the constructed generator satisfy
\* dah_time > dit_time > 0, word_space_time > char_space_time >=
\* element_space_time, char_space_time >= 3 * dit_time and
\* word_space_time >= 7 * dit_time.
C16_TimingOrdering ==
    (pc # "new" /\ 0 < effective_wpm /\ effective_wpm <= char_wpm) =>
        /\ Constructed
        /\ RLess(timing.dit_time, timing.dah_time)
        /\ RLess(RInt(0), timing.dit_time)
        /\ RLess(timing.char_space_time, timing.word_space_time)
        /\ RLeq(timing.element_space_time, timing.char_space_time)
        /\ RLeq(RScale(3, timing.dit_time), timing.char_space_time)
        /\ RLeq(RScale(7, timing.dit_time), timing.word_space_time)

C16_Witness ==
    /\ pc = "ready"
    /\ char_wpm = 20
    /\ effective_wpm = 10
    /\ RLess(RScale(3, timing.dit_time), timing.char_space_time)
    /\ RLess(RScale(7, timing.dit_time), timing.word_space_time)

\* C17: standard spacing.  Whenever effective_wpm = char_wpm > 0,
\* char_space_time is exactly 3 * dit_time and word_space_time exactly
\* 7 * dit_time: nothing is stretched.
C17_StandardSpacing ==
    (pc # "new" /\ effective_wpm = char_wpm /\ char_wpm > 0) =>
        /\ Constructed
        /\ timing.char_space_time = RScale(3, timing.dit_time)
        /\ timing.word_space_time = RScale(7, timing.dit_time)

C17_Witness ==
    /\ pc = "ready"
    /\ char_wpm = 20
    /\ effective_wpm = 20
    /\ timing.char_space_time = Rat(9, 50)
    /\ timing.word_space_time = Rat(21, 50)

\* C18: for every char_wpm > 0 and every effective_wpm, dit_time is
\* 1.2 / char_wpm, dah_time is 3 * dit_time and element_space_time is
\* dit_time, whatever effective_wpm is (they are assigned before
\* effective_wpm is first used).
C18_BaseTiming ==
    (pc # "new" /\ char_wpm > 0) =>
        /\ 5 * char_wpm * timing.dit_time.n = 6 * timing.dit_time.d
        /\ timing.dah_time = RScale(3, timing.dit_time)
        /\ timing.element_space_time = timing.dit_time

C18_Witness ==
    /\ pc = "ready"
    /\ char_wpm = 20
    /\ effective_wpm = 3
    /\ timing.dit_time = Rat(3, 50)
    /\ timing.dah_time = Rat(9, 50)
    /\ timing.element_space_time = Rat(3, 50)

\* the table entries other than the space
LiveEntries == DOMAIN morse_code \ {" "}

\* C19: the Morse table a generator is given by its constructor has exactly
\* 41 entries other than the space entry, and each of them maps its
\* character to a string of at least one symbol, made of '.' and '-' only.
C19_MorseTable ==
    pc # "new" =>
        /\ Cardinality(LiveEntries) = 41
        /\ \A c \in LiveEntries :
              /\ Len(morse_code[c]) >= 1
              /\ \A i \in 1..Len(morse_code[c]) : morse_code[c][i] \in {".", "-"}

C19_Witness ==
    /\ Encoded
    /\ text = <<"K", "E">>
    /\ {"K", "E", "X", "0", "?"} \subseteq LiveEntries
    /\ [i \in 1..4 |-> CharacterAudio(audio)[i].role] = <<"dah", "element_space", "dit", "element_space">>

\* C21: for every character of the Morse table whose code has k >= 1
\* dots and dashes, char_to_morse_audio emits exactly k tones and k-1
\* silences of element_space_time, alternating tone, silence, tone, ...,
\* from a tone to a tone; the i-th tone lasts dit_time for a dot and
\* dah_time for a dash.  (The audio of a one-character text is the
\* lead-in, the character's audio and the trailing silence.)
C21_CharacterAudio ==
    (pc = "drilled" /\ drill_count = 1 /\ drill_char \in LiveEntries) =>
        LET a == Content(audio)
            code == morse_code[drill_char]
            k == Len(code)
        IN  /\ a = char_to_morse_audio(timing, drill_char)
            /\ Len(a) = 2 * k - 1
            /\ Len(SelectSeq(a, LAMBDA g : g.kind = "tone")) = k
            /\ Len(SelectSeq(a, LAMBDA g : g.kind = "silence")) = k - 1
            /\ \A j \in 1..Len(a) :
                  IF j % 2 = 1
                  THEN /\ a[j].kind = "tone"
                       /\ a[j].dur = (IF code[(j + 1) \div 2] = "." THEN timing.dit_time
                                      ELSE timing.dah_time)
                       /\ code[(j + 1) \div 2] \in {".", "-"}
                  ELSE /\ a[j].kind = "silence"
                       /\ a[j].dur = timing.element_space_time

C21_Witness ==
    /\ pc = "drilled"
    /\ drill_count = 1
    /\ drill_char = "K"
    /\ char_wpm = 20
    /\ effective_wpm = 10
    /\ Durations(Content(audio)) = <<Rat(9, 50), Rat(3, 50), Rat(3, 50), Rat(3, 50), Rat(9, 50)>>

\* k is an integer nearest to the rational a
IsNearest(k, a) == 2 * Abs(k * a.d - a.n) <= a.d

\* C22: sample-count convention.  For every duration d >= 0, generate_tone(d)
\* and generate_silence(d) each return round(sample_rate * d) samples, the
\* count rounded to the nearest integer, and generate_silence returns
\* zeros only.
C22_RoundedSampleCount ==
    (pc \in {"tone_returned", "silence_returned"} /\ RLeq(RInt(0), duration)) =>
        /\ IsNearest(buffer.n, RScale(sample_rate, duration))
        /\ pc = "silence_returned" => buffer.kind = "silence"

\* C23: fade edge case.  With F = round(sample_rate * 0.005) samples,
\* generate_tone fades in its first F samples and fades out its last F
\* samples if and only if the buffer has at least 2 * F samples; a shorter
\* buffer is returned with no fade.
C23_FadeFromTwiceTheLength ==
    pc = "tone_returned" =>
        /\ IsNearest(fade_samples, RScale(sample_rate, Rat(1, 200)))
        /\ buffer.faded <=> (buffer.n >= 2 * fade_samples)

---------------------------------------------------------------------------
(* Properties of save_audio *)

Saved == pc = "saved"

AllZero(buf) == \A i \in 1..Len(buf) : buf[i] = 0

SkipRecorded == \E i \in 1..Len(console) : console[i].msg = "warning: audio is empty, save skipped"

DividedByZero ==
    \E i \in 1..Len(console) : console[i].msg = "RuntimeWarning: invalid value encountered in divide"

\* C4: save_audio is silent-safe.  For a buffer that is empty or whose
\* samples are all zero, save_audio never divides by zero, writes no file
\* and records a skip.
C4_SilentSafe ==
    (Saved /\ AllZero(samples)) => (wav = NoFile /\ SkipRecorded /\ ~DividedByZero)

\* C5: full-scale normalisation.  For every non-empty buffer with a
\* non-zero sample, save_audio writes one int16 sample per input sample,
\* each the input sample divided by the buffer's maximum absolute value and
\* scaled by 32767 (cut to an integer, by less than one); the maximum absolute
\* written sample is exactly 32767 and none lies outside -32767..32767.
C5_FullScale ==
    (Saved /\ ~AllZero(samples)) =>
        LET m == MaxAbs(samples)
        IN  /\ wav.written
            /\ DOMAIN wav.data = 1..Len(samples)
            /\ \A i \in 1..Len(samples) :
                  /\ wav.data[i] \in (-32767)..32767
                  /\ (samples[i] >= 0) => (wav.data[i] >= 0)
                  /\ (samples[i] <= 0) => (wav.data[i] <= 0)
                  /\ Abs(wav.data[i]) * m <= Abs(samples[i]) * 32767
                  /\ Abs(samples[i]) * 32767 <= (Abs(wav.data[i]) + 1) * m
            /\ \E i \in 1..Len(samples) : Abs(wav.data[i]) = 32767
            /\ ~DividedByZero

C5_Witness ==
    /\ Saved
    /\ samples = <<-1, 2, 0>>
    /\ wav = WavFile(<<-16383, 32767, 0>>)

---------------------------------------------------------------------------
(* Properties of the practice patterns *)

Chars(seq) == {seq[i] : i \in 1..Len(seq)}

\* 10 groups of 5 characters of cs, one space between consecutive groups
WellGrouped(t, cs) ==
    /\ Len(t) = 59
    /\ \A p \in 1..Len(t) :
          IF p % 6 = 0 THEN t[p] = " " ELSE (t[p] # " " /\ t[p] \in Chars(cs))

\* C6: for every non-empty char_set without a space, every weight mode and
\* every outcome of the draws, generate_pattern returns a text of exactly
\* 59 characters: 10 groups of exactly 5 characters, one space between
\* consecutive groups, no leading or trailing space, and every non-space
\* character a member of char_set.
C6_PatternShape ==
    (char_set # <<>> /\ " " \notin Chars(char_set)) =>
        /\ pc # "raised"
        /\ \A k \in 1..Len(results) : WellGrouped(results[k], char_set)

C6_Witness ==
    /\ Len(results) >= 1
    /\ char_set = <<"K", "E">>
    /\ frequency_mode = "new_char_focus"
    /\ Chars(results[1]) = {"K", "E", " "}

\* C9: for a char_set of n >= 1 characters get_character_weights returns n
\* weights aligned with char_set, or no vector in mode 'uniform'; in mode
\* 'new_char_focus' the last weight is exactly 2 times every other weight,
\* in mode 'gradual' exactly 1.5 times, and in mode 'difficulty' the weight
\* of a character is 1.0 + 0.15 * (length of its Morse code), hence
\* strictly increasing in code length and equal for equal lengths.
C9_WeightVector ==
    (pc = "weighted" /\ Len(char_set) >= 1) =>
        LET n == Len(char_set)
            w == weights.list
            coded == {i \in 1..n : char_set[i] \in DOMAIN morse_code}
            len(i) == Len(morse_code[char_set[i]])
        IN  /\ frequency_mode = "uniform" => weights = NoWeights
            /\ frequency_mode \in {"new_char_focus", "gradual", "difficulty"} =>
                  (~weights.none /\ Len(w) = n /\ \A i \in 1..n : w[i] > 0)
            /\ frequency_mode = "new_char_focus" =>
                  \A i \in 1..(n - 1) : w[n] = 2 * w[i]
            /\ frequency_mode = "gradual" =>
                  \A i \in 1..(n - 1) : 2 * w[n] = 3 * w[i]
            /\ frequency_mode = "difficulty" =>
                  /\ \A i \in coded : w[i] = 100 + 15 * len(i)
                  /\ \A i, j \in coded : (len(i) < len(j)) => (w[i] < w[j])
                  /\ \A i, j \in coded : (len(i) = len(j)) => (w[i] = w[j])

C9_Witness ==
    /\ pc = "weighted"
    /\ char_set = <<"E", "K">>
    /\ frequency_mode = "new_char_focus"
    /\ weights = WeightList(<<100, 200>>)

\* number of characters of t other than spaces
NonSpace(t) == Cardinality({p \in 1..Len(t) : t[p] # " "})

\* C20: generate_pattern(char_set, num_chars, weights) returns a text whose
\* number of non-space characters equals num_chars, for every
\* num_chars >= 0.
C20_NumCharsHonoured ==
    (" " \notin Chars(char_set) /\ num_chars >= 0) =>
        \A k \in 1..Len(results) : NonSpace(results[k]) = num_chars

\* C10: generate_pattern takes its randomness only from what the caller
\* supplies: two calls with the same char_set and the same weights (the
\* caller can pass no random source) return the same text, whatever the
\* process-wide state of module random.
C10_DeterminedByArguments ==
    \A j, k \in 1..Len(results) : results[j] = results[k]

---------------------------------------------------------------------------
(* Properties of the batch *)

LessonLog == SelectSeq(console, LAMBDA e : e.msg = "lesson")

\* the lessons printed so far are nested prefixes of the Koch sequence, and
\* lesson 40 is the whole sequence, of `total' symbols
LessonsNested(total) ==
    LET L == LessonLog
    IN  \A k \in 1..Len(L) :
          /\ Len(L[k].chars) = L[k].lesson + 1
          /\ L[k].chars = SubSeq(KOCH_SEQUENCE, 1, Len(L[k].chars))
          /\ L[k].lesson = k
          /\ k >= 2 =>
                \E c \in Chars(KOCH_SEQUENCE) \ Chars(L[k - 1].chars) :
                    L[k].chars = Append(L[k - 1].chars, c)
          /\ L[k].lesson = 40 =>
                (L[k].chars = KOCH_SEQUENCE /\ Len(L[k].chars) = total)

\* C3 as stated: the character sequence of lesson n (2..40) is that of
\* lesson n-1 followed by exactly one new character, lesson n has n+1
\* characters, a prefix of the canonical sequence, and lesson 40 is the
\* full 43-symbol canonical sequence.
C3_LessonNesting_Original == LessonsNested(43)

\* C3 (amended): as above, with the canonical sequence, and so lesson 40,
\* having 41 symbols.
C3_LessonNesting == LessonsNested(41)

C3_Witness ==
    /\ pc = "done"
    /\ Len(LessonLog) = 40
    /\ LessonLog[40].chars = KOCH_SEQUENCE

\* the drill files on disk
DrillFiles == {p \in DOMAIN files : p[1] = "Character"}

\* create_character_lessons has just returned
DrillsReturned == pc = "begin_lesson" /\ lesson_num = 1

\* C14: character drills cover the sequence.  The drill files written so
\* far are those of the indexes below the loop index, and when
\* create_character_lessons returns it has written exactly the 41 files
\* koch-000.wav .. koch-040.wav, file i holding the encoding of the i-th
\* symbol of the Koch sequence repeated 15 times; every symbol of the
\* sequence has exactly one drill file and a Morse table entry, so no
\* drill is written from an empty character encoding.
C14_DrillsCoverSequence ==
    /\ DrillFiles = {get_character_audio(i) : i \in 0..(idx - 1)}
    /\ DrillsReturned =>
          /\ idx = 41
          /\ DrillFiles = {get_character_audio(i) : i \in 0..40}
          /\ \A i \in 0..40 :
                LET c == KOCH_SEQUENCE[i + 1]
                    a == text_to_morse_audio(timing, [j \in 1..15 |-> c])
                IN  /\ c \in DOMAIN morse_code
                    /\ c # " "
                    /\ files[get_character_audio(i)] = WavOf(a)
                    /\ files[get_character_audio(i)].data = "normalised"
                    /\ Len(SelectSeq(a, LAMBDA g : g.kind = "tone")) = 15 * Len(morse_code[c])
          /\ \A c \in Chars(KOCH_SEQUENCE) :
                Cardinality({i \in 0..40 : KOCH_SEQUENCE[i + 1] = c}) = 1
          /\ Len(KOCH_SEQUENCE) = 41

C14_Witness ==
    /\ DrillsReturned
    /\ Cardinality(DrillFiles) = 41
    /\ files[CharacterPath(0)] = WavOf(text_to_morse_audio(timing, [j \in 1..15 |-> "K"]))
    /\ files[CharacterPath(40)].data = "normalised"

\* the files of directory Lesson-<n>
LessonFiles(n) == {p \in DOMAIN files : p[1] = "Lesson" /\ p[2] = n}

\* create_lessons has returned
LessonsReturned == pc \in {"summary", "done"}

\* the lesson and number of the practice file generated last
LastPractice ==
    IF pc = "practice" /\ file_num > 1
    THEN [lesson |-> lesson_num, file |-> file_num - 1]
    ELSE [lesson |-> lesson_num - 1, file |-> files_per_lesson]

\* a practice file has been generated and nothing was raised
PracticeGenerated ==
    /\ error = "none"
    /\ files_per_lesson >= 1
    /\ pc \in {"practice", "begin_lesson", "summary", "done"}
    /\ LastPractice.lesson >= 1

C8_WriteFailureIsolated ==
    failed # {} => (pc # "raised" /\ error = "none")

---------------------------------------------------------------------------
(* Properties of the loop iterations run as workers *)

AllWorkersDone == \A w \in Workers : worker_pc[w] = "done"

\* the files the same iterations write when run one after the other
SequentialPaths == Workers \cup {TextFileOf(w) : w \in PracticeWorkers}

\* no mutable location is touched by two different workers
NoSharedMutableState ==
    \A a, b \in accesses : a.loc = b.loc => a.worker = b.worker

\* C11: the generation loop is parallelizable without synchronization.
\* With the lesson and drill iterations run as independent workers in any
\* interleaving no two iterations write the same file path, no iteration
\* reads or writes mutable state another iteration writes (the durations
\* are never modified), and the files produced are those of the
\* sequential run.
C11_Parallelizable ==
    /\ NoSharedMutableState
    /\ timing = InitTiming(20, 10)
    /\ AllWorkersDone => DOMAIN files = SequentialPaths

---------------------------------------------------------------------------
(* The Koch window: lesson progress kept in QSettings, the two media        *)
(* players and the countdown.  The fields of the KochWindow object are the  *)
(* fields of the record window; a handler is a function from the record     *)
(* before the call to the record after it.  A lesson name such as           *)
(* "02 - U" is the record of its number and of the characters it shows.     *)
(* A player is its playback state and its position: 0 is the start of the   *)
(* medium, MaxPos its end.  The media are taken to be loadable.             *)

COUNTDOWN_SECONDS == 3

MaxPos == 2

MaxLesson == 2

MaxPairs == 3

MaxClears == 2

\* key of init_lesson_data for lesson i: "01 - K, M", then f"{i:02d} - {char}"
LessonName(i) ==
    [num |-> i,
     chars |-> IF i = 1 THEN <<"K", "M">> ELSE <<KOCH_SEQUENCE[i + 1]>>]

\* keys of KochWindow.lesson_data
lesson_data == {LessonName(i) : i \in 1..(Len(KOCH_SEQUENCE) - 1)}

\* a name stored by an earlier version that lesson_data no longer holds
StaleName == [num |-> 0, chars |-> <<"K">>]

NoName == [num |-> 0, chars |-> <<>>]

\* the settings key f"{lesson_name}_index"
IndexKey(lesson_name) == [prefix |-> lesson_name, suffix |-> "_index"]

\* the settings keys "current_lesson", "volume" and "dark_theme"
PlainKey(s) == [prefix |-> NoName, suffix |-> s]

\* QSettings.value(key, default)
SettingsValue(st, key, default) ==
    IF key \in DOMAIN st THEN st[key] ELSE default

\* QSettings.setValue(key, value)
SetValue(st, key, value) ==
    [k \in DOMAIN st \cup {key} |-> IF k = key THEN value ELSE st[k]]

\* QSettings.remove for a set of keys
Removed(st, keys) == [k \in DOMAIN st \ keys |-> st[k]]

\* Config.get_lesson_audio: Lesson-<n>/koch-<index>.wav
get_lesson_audio(n, index) == <<"Lesson", n, index, "wav">>

\* total_characters.index(c)
CharIndex(c) == CHOOSE i \in 0..(Len(KOCH_SEQUENCE) - 1) : KOCH_SEQUENCE[i + 1] = c

\* KochWindow.get_lesson_text_count: half the files koch-*.wav of the folder
get_lesson_text_count(lesson_name, fs) ==
    Cardinality({p \in DOMAIN fs :
                    p[1] = "Lesson" /\ p[2] = lesson_name.num /\ p[4] = "wav"}) \div 2

StoppedPlayer == [state |-> "stopped", position |-> 0]

\* KochWindow.__init__ up to the call of load_lesson_progress
NewWindow ==
    [current_lesson_name |-> NoName,
     current_text_index |-> 0,
     label_char_sound |-> "",
     char_audio_file |-> <<>>,
     text_audio_file |-> <<>>,
     is_char_playing |-> FALSE,
     is_char_seeking |-> FALSE,
     is_char_playback_finished |-> FALSE,
     is_text_playing |-> FALSE,
     is_text_seeking |-> FALSE,
     is_text_manually_seeked |-> FALSE,
     is_text_playback_finished |-> FALSE,
     is_countdown_active |-> FALSE,
     is_result_checked |-> FALSE,
     countdown_value |-> COUNTDOWN_SECONDS,
     countdown_timer |-> "stopped",
     char_player |-> StoppedPlayer,
     text_player |-> StoppedPlayer]

\* cancel_countdown that leaves the countdown running
cancel_countdown_Running(w) == w

cancel_countdown(w) ==
    [w EXCEPT !.countdown_timer = "stopped",
              !.is_countdown_active = FALSE,
              !.countdown_value = COUNTDOWN_SECONDS,
              !.is_text_playback_finished = TRUE]

start_countdown(w) ==
    [w EXCEPT !.countdown_value = COUNTDOWN_SECONDS,
              !.is_countdown_active = TRUE,
              !.countdown_timer = "running"]

\* a click on the text slider, or progress_text.setValue, moving it to the
\* value of position p; down is isSliderDown().  Two positions of the model
\* are more than 50 ms apart.
on_text_slider_value_changed(w, p, down) ==
    IF w.is_text_seeking
    THEN IF down /\ w.is_countdown_active THEN cancel_countdown(w) ELSE w
    ELSE IF ~down /\ p # w.text_player.position
         THEN LET a == [w EXCEPT !.is_text_manually_seeked = TRUE]
                  b == IF a.is_countdown_active THEN cancel_countdown(a) ELSE a
              IN  [b EXCEPT !.text_player.position = p]
         ELSE w

on_char_slider_value_changed(w, p, down) ==
    IF ~w.is_char_seeking /\ ~down /\ p # w.char_player.position
    THEN [w EXCEPT !.char_player.position = p]
    ELSE w

\* update_text_playback_state(StoppedState).  The slider follows the
\* position unless it is being dragged, so progress_text.setValue(0) changes
\* its value, and runs on_text_slider_value_changed, when the position is
\* not 0.
update_text_playback_state(w) ==
    LET a == IF w.is_text_playing
             THEN [w EXCEPT !.is_text_playback_finished = TRUE,
                            !.is_text_manually_seeked = FALSE]
             ELSE w
        b == [a EXCEPT !.is_text_playing = FALSE]
        c == on_text_slider_value_changed(b, 0, FALSE)
    IN  [c EXCEPT !.is_text_seeking = FALSE]

update_char_playback_state(w) ==
    LET a == IF w.is_char_playing
             THEN [w EXCEPT !.is_char_playback_finished = TRUE]
             ELSE w
        b == [a EXCEPT !.is_char_playing = FALSE]
        c == on_char_slider_value_changed(b, 0, FALSE)
    IN  [c EXCEPT !.is_char_seeking = FALSE]

\* text_player.stop(), also the first step of setSource: the position goes
\* to 0 and playbackStateChanged is emitted when the state changes
text_player_stop(w) ==
    LET a == [w EXCEPT !.text_player = StoppedPlayer]
    IN  IF w.text_player.state # "stopped"
        THEN update_text_playback_state(a)
        ELSE a

char_player_stop(w) ==
    LET a == [w EXCEPT !.char_player = StoppedPlayer]
    IN  IF w.char_player.state # "stopped"
        THEN update_char_playback_state(a)
        ELSE a

char_media_load(w) ==
    LET a == [w EXCEPT !.char_audio_file =
                            get_character_audio(CharIndex(w.label_char_sound))]
        b == char_player_stop(a)
    IN  [b EXCEPT !.is_char_playback_finished = TRUE]

text_media_load(w) ==
    LET a == [w EXCEPT !.text_audio_file =
                            get_lesson_audio(w.current_lesson_name.num,
                                             w.current_text_index + 1)]
        b == text_player_stop(a)
    IN  [b EXCEPT !.is_result_checked = FALSE,
                  !.is_text_manually_seeked = FALSE,
                  !.is_text_playback_finished = TRUE]

\* update_information after the part that reads the settings
update_information(w, lesson_name) ==
    LET a == [w EXCEPT !.current_lesson_name = lesson_name,
                       !.label_char_sound =
                            IF lesson_name = LessonName(1)
                            THEN "K"
                            ELSE KOCH_SEQUENCE[lesson_name.num + 1]]
    IN  text_media_load(char_media_load(a))

save_lesson_name(st, lesson_name) ==
    SetValue(st, PlainKey("current_lesson"), lesson_name)

save_lesson_progress(st, lesson_name, text_index) ==
    save_lesson_name(SetValue(st, IndexKey(lesson_name), text_index), lesson_name)

\* load_lesson_progress, run with the combo box signal disconnected
load_lesson_progress(w, st) ==
    LET saved_lesson == SettingsValue(st, PlainKey("current_lesson"), NoName)
    IN  IF saved_lesson # NoName /\ saved_lesson \in lesson_data
        THEN update_information(
                 [w EXCEPT !.current_lesson_name = saved_lesson,
                           !.current_text_index =
                                SettingsValue(st, IndexKey(saved_lesson), 0)],
                 saved_lesson)
        ELSE update_information(
                 [w EXCEPT !.current_lesson_name = LessonName(1),
                           !.current_text_index = 0],
                 LessonName(1))

\* next_text on the window, given the practice count of the lesson
next_text(w, max_texts) ==
    LET i == w.current_text_index + 1
    IN  [w EXCEPT !.current_text_index = IF i >= max_texts THEN 0 ELSE i]

\* clear_progress_settings emptying the whole store
clear_progress_settings_All(st) == SetValue(Empty, PlainKey("dark_theme"), FALSE)

\* KochMethodTrainer.clear_progress_settings on the stored settings
clear_progress_settings(st) ==
    LET current_lesson == SettingsValue(st, PlainKey("current_lesson"), NoName)
        index_keys == {k \in DOMAIN st : k.suffix = "_index"}
    IN  IF index_keys = {} /\ current_lesson = NoName
        THEN st
        ELSE SetValue(Removed(st, index_keys \cup {PlainKey("volume")}),
                      PlainKey("dark_theme"), FALSE)

\* what clear_progress_settings prints
ClearReport(st) ==
    LET current_lesson == SettingsValue(st, PlainKey("current_lesson"), NoName)
        index_keys == {k \in DOMAIN st : k.suffix = "_index"}
    IN  IF index_keys = {} /\ current_lesson = NoName
        THEN [msg |-> "no progress to clear"]
        ELSE [msg |-> "progress reset",
              kept |-> current_lesson,
              cleared |-> Cardinality(index_keys)]

\* text_play_pause that never starts a countdown
StartsFromBeginning_Never(w) == FALSE

\* the test of text_play_pause for a playback from the start
StartsFromBeginning(w) == w.text_player.position = 0 /\ w.is_text_playback_finished

char_play_pause(w) ==
    IF ~w.is_char_playing
    THEN LET a == IF w.is_countdown_active THEN cancel_countdown(w) ELSE w
             b == IF a.is_text_playing
                  THEN [a EXCEPT !.text_player.state = "paused",
                                 !.is_text_playing = FALSE]
                  ELSE a
             c == IF b.char_player.position = 0 /\ b.is_char_playback_finished
                  THEN [b EXCEPT !.is_char_playback_finished = FALSE]
                  ELSE b
             d == [c EXCEPT !.char_player.state = "playing"]
         IN  [d EXCEPT !.is_char_playing = ~d.is_char_playing]
    ELSE [w EXCEPT !.char_player.state = "paused",
                   !.is_char_playing = ~w.is_char_playing]

char_restart(w) ==
    LET a == char_player_stop(w)
    IN  [a EXCEPT !.is_char_playback_finished = TRUE,
                  !.is_char_playing = FALSE]

text_play_pause(w) ==
    IF w.is_countdown_active
    THEN cancel_countdown(w)
    ELSE IF ~w.is_text_playing
         THEN LET a == IF w.is_char_playing
                       THEN [w EXCEPT !.char_player.state = "paused",
                                      !.is_char_playing = FALSE]
                       ELSE w
              IN  IF StartsFromBeginning(a)
                  THEN start_countdown([a EXCEPT !.is_text_playback_finished = FALSE])
                  ELSE [a EXCEPT !.text_player.state = "playing",
                                 !.is_text_playing = TRUE]
         ELSE [w EXCEPT !.text_player.state = "paused",
                        !.is_text_playing = FALSE]

update_countdown(w) ==
    LET v == w.countdown_value - 1
    IN  IF v > 0
        THEN [w EXCEPT !.countdown_value = v]
        ELSE [w EXCEPT !.countdown_value = v,
                       !.countdown_timer = "stopped",
                       !.is_countdown_active = FALSE,
                       !.text_player.state = "playing",
                       !.is_text_playing = TRUE]

text_restart(w) ==
    LET a == text_player_stop(w)
    IN  [a EXCEPT !.is_text_manually_seeked = FALSE,
                  !.is_text_playback_finished = TRUE,
                  !.is_text_playing = FALSE]

on_text_slider_pressed(w) ==
    LET a == [w EXCEPT !.is_text_seeking = TRUE,
                       !.is_text_manually_seeked = TRUE]
    IN  IF a.is_countdown_active THEN cancel_countdown(a) ELSE a

\* the slider released at the value of position p
on_text_slider_released(w, p) ==
    [w EXCEPT !.is_text_seeking = FALSE, !.text_player.position = p]

on_char_slider_pressed(w) == [w EXCEPT !.is_char_seeking = TRUE]

on_char_slider_released(w, p) ==
    [w EXCEPT !.is_char_seeking = FALSE, !.char_player.position = p]

\* check_result: the first click shows the result, the second is next_text
check_result(w, max_texts) ==
    IF ~w.is_result_checked
    THEN [w EXCEPT !.is_result_checked = TRUE]
    ELSE text_media_load(next_text(w, max_texts))

Positions == 0..MaxPos

Running == pc = "running" /\ window # NoWindow

WindowFrame == UNCHANGED <<pc, error, console, materialVars, toneVars, statsVars>>

\* KochWindow(): the constructor, ending with load_lesson_progress
Launch ==
    /\ pc = "closed"
    /\ pc' = "running"
    /\ window' = load_lesson_progress(NewWindow, settings)
    /\ UNCHANGED <<error, console, materialVars, toneVars, statsVars, settings>>

\* the user picks another lesson in the combo box
UpdateInformation ==
    /\ Running
    /\ \E i \in 1..MaxLesson :
          /\ LessonName(i) # window.current_lesson_name
          /\ settings' = save_lesson_name(settings, LessonName(i))
          /\ window' = update_information(
                           [window EXCEPT !.current_text_index =
                                SettingsValue(settings', IndexKey(LessonName(i)), 0)],
                           LessonName(i))
    /\ WindowFrame

\* the check button or Ctrl+Return
CheckResult ==
    /\ Running
    /\ window' = check_result(window,
                      get_lesson_text_count(window.current_lesson_name, files))
    /\ settings' = IF window.is_result_checked
                   THEN save_lesson_progress(settings, window'.current_lesson_name,
                                             window'.current_text_index)
                   ELSE settings
    /\ WindowFrame

\* a click on one of the character labels of the lesson
UpdateLabelCharSound ==
    /\ Running
    /\ \E i \in 1..(window.current_lesson_name.num + 1) :
          window' = char_media_load([window EXCEPT !.label_char_sound = KOCH_SEQUENCE[i]])
    /\ UNCHANGED settings
    /\ WindowFrame

CloseEvent ==
    /\ Running
    /\ settings' = save_lesson_progress(settings, window.current_lesson_name,
                                        window.current_text_index)
    /\ window' = NoWindow
    /\ pc' = "closed"
    /\ UNCHANGED <<error, console, materialVars, toneVars, statsVars>>

\* the last step of create_all, whether or not the window is open
ClearProgressSettings ==
    /\ Len(console) < MaxClears
    /\ settings' = clear_progress_settings(settings)
    /\ console' = Append(console, ClearReport(settings))
    /\ UNCHANGED <<pc, error, materialVars, toneVars, statsVars, window>>

\* the lesson folders create_lessons wrote: n pairs in every lesson
LessonFolders(n) ==
    [p \in {LessonPath(l, k, ext) : l \in 1..MaxLesson, k \in 1..n, ext \in {"wav", "txt"}}
        |-> [kind |-> p[4]]]

StoredIndexes == [{IndexKey(LessonName(i)) : i \in 1..MaxLesson} -> (-1)..(MaxPairs - 1)]

\* the settings a former run may have left; index -1 stands for no key
StoredSettings ==
    {Removed(SetValue(SetValue(SetValue(ix, PlainKey("current_lesson"), cur),
                               PlainKey("volume"), vol),
                      PlainKey("dark_theme"), TRUE),
             {k \in DOMAIN ix : ix[k] = -1}
             \cup (IF cur = NoName THEN {PlainKey("current_lesson")} ELSE {})
             \cup (IF vol = -1 THEN {PlainKey("volume")} ELSE {})
             \cup (IF dark = "none" THEN {PlainKey("dark_theme")} ELSE {})) :
        ix \in StoredIndexes,
        cur \in {NoName, StaleName} \cup {LessonName(i) : i \in 1..MaxLesson},
        vol \in {-1, 50},
        dark \in {"none", "true"}}

InitProgress ==
    /\ pc = "closed"
    /\ error = "none"
    /\ console = <<>>
    /\ EncodeIdle
    /\ SaveIdle
    /\ DrillIdle
    /\ PatternIdle
    /\ ToneIdle
    /\ StatsIdle
    /\ idx = 0
    /\ lesson_num = 0
    /\ file_num = 0
    /\ failed = {}
    /\ WorkersIdle
    /\ files_per_lesson \in 0..MaxPairs
    /\ files = LessonFolders(files_per_lesson)
    /\ window = NoWindow
    /\ settings \in StoredSettings

NextProgress ==
    Launch \/ UpdateInformation \/ CheckResult \/ CloseEvent \/ ClearProgressSettings

SpecProgress == InitProgress /\ [][NextProgress]_vars

---------------------------------------------------------------------------
(* The players and the countdown of an open window.  The window has been    *)
(* launched on fresh settings and on lesson folders of MaxPairs practices.  *)

InitPlayer ==
    /\ pc = "running"
    /\ error = "none"
    /\ console = <<>>
    /\ EncodeIdle
    /\ SaveIdle
    /\ DrillIdle
    /\ PatternIdle
    /\ ToneIdle
    /\ StatsIdle
    /\ idx = 0
    /\ lesson_num = 0
    /\ file_num = 0
    /\ failed = {}
    /\ WorkersIdle
    /\ files_per_lesson = MaxPairs
    /\ files = LessonFolders(files_per_lesson)
    /\ settings = Empty
    /\ window = load_lesson_progress(NewWindow, settings)

PlayerFrame == UNCHANGED <<settings, pc, error, console, materialVars, toneVars, statsVars>>

CharPlayPause == Running /\ window' = char_play_pause(window) /\ PlayerFrame

CharRestart == Running /\ window' = char_restart(window) /\ PlayerFrame

\* the play button or the space key
TextPlayPause == Running /\ window' = text_play_pause(window) /\ PlayerFrame

\* the restart button or Ctrl+R
TextRestart == Running /\ window' = text_restart(window) /\ PlayerFrame

\* countdown_timer.timeout
UpdateCountdown ==
    /\ Running
    /\ window.countdown_timer = "running"
    /\ window' = update_countdown(window)
    /\ PlayerFrame

OnTextSliderPressed == Running /\ window' = on_text_slider_pressed(window) /\ PlayerFrame

OnTextSliderReleased ==
    /\ Running
    /\ window.is_text_seeking
    /\ \E p \in Positions : window' = on_text_slider_released(window, p)
    /\ PlayerFrame

\* the slider dragged, or clicked, to the value of position p
OnTextSliderValueChanged ==
    /\ Running
    /\ \E p \in Positions :
          window' = on_text_slider_value_changed(window, p, window.is_text_seeking)
    /\ PlayerFrame

OnCharSliderPressed == Running /\ window' = on_char_slider_pressed(window) /\ PlayerFrame

OnCharSliderReleased ==
    /\ Running
    /\ window.is_char_seeking
    /\ \E p \in Positions : window' = on_char_slider_released(window, p)
    /\ PlayerFrame

OnCharSliderValueChanged ==
    /\ Running
    /\ \E p \in Positions :
          window' = on_char_slider_value_changed(window, p, window.is_char_seeking)
    /\ PlayerFrame

\* positionChanged of the playing text player; update_text_progress moves
\* the slider only
UpdateTextProgress ==
    /\ Running
    /\ window.text_player.state = "playing"
    /\ window.text_player.position < MaxPos - 1
    /\ window' = [window EXCEPT !.text_player.position = @ + 1]
    /\ PlayerFrame

UpdateCharProgress ==
    /\ Running
    /\ window.char_player.state = "playing"
    /\ window.char_player.position < MaxPos - 1
    /\ window' = [window EXCEPT !.char_player.position = @ + 1]
    /\ PlayerFrame

\* the text player reaches the end of the medium: the position is the
\* duration, then playbackStateChanged(StoppedState)
UpdateTextPlaybackState ==
    /\ Running
    /\ window.text_player.state = "playing"
    /\ window' = update_text_playback_state(
                     [window EXCEPT !.text_player =
                                        [state |-> "stopped", position |-> MaxPos]])
    /\ PlayerFrame

UpdateCharPlaybackState ==
    /\ Running
    /\ window.char_player.state = "playing"
    /\ window' = update_char_playback_state(
                     [window EXCEPT !.char_player =
                                        [state |-> "stopped", position |-> MaxPos]])
    /\ PlayerFrame

NextPlayer ==
    \/ CharPlayPause
    \/ CharRestart
    \/ TextPlayPause
    \/ TextRestart
    \/ UpdateCountdown
    \/ OnTextSliderPressed
    \/ OnTextSliderReleased
    \/ OnTextSliderValueChanged
    \/ OnCharSliderPressed
    \/ OnCharSliderReleased
    \/ OnCharSliderValueChanged
    \/ UpdateTextProgress
    \/ UpdateCharProgress
    \/ UpdateTextPlaybackState
    \/ UpdateCharPlaybackState
    \/ UpdateInformation
    \/ UpdateLabelCharSound
    \/ CheckResult

SpecPlayer == InitPlayer /\ [][NextPlayer]_vars

---------------------------------------------------------------------------
(* StatisticsManager: add_practice_record and the queries.  A dict key     *)
(* str(n) is the sequence of the decimal digits of n.  Accuracies and      *)
(* times are in hundredths, the precision round(x, 2) keeps.  A timestamp  *)
(* is the year of datetime.now().  _lesson_cache holds the very dict       *)
(* objects of data["lessons"], so it is the set of the cached keys;        *)
(* _overall_cache holds a dict built from copies of the totals.            *)

FirstYear == 2025

LastYear == 2026

MaxRecords == 3

\* lesson numbers the records of the model are added for
StatLessons == {1, 2, 10}

Accuracies == {5000, 10000}

PracticeTimes == {1250}

RECURSIVE Str(_)
\* str(n) for n >= 0
Str(n) == IF n < 10 THEN <<n>> ELSE Append(Str(n \div 10), n % 10)

RECURSIVE IntOf(_)
\* int(key) of a digit string
IntOf(key) ==
    IF Len(key) = 1
    THEN key[1]
    ELSE 10 * IntOf(SubSeq(key, 1, Len(key) - 1)) + key[Len(key)]

\* extract_lesson_number: int(lesson_name.split('-')[0].strip())
extract_lesson_number(lesson_name) == lesson_name.num

\* round(n / d, 2) in hundredths, n in hundredths; no tie occurs for the
\* accuracies of the model
RoundDiv(n, d) == (2 * n + d) \div (2 * d)

\* load_statistics with no Statistics.json
DefaultData ==
    [total_practice_time |-> 0,
     total_practice_count |-> 0,
     average_accuracy |-> 0,
     practiced_lesson_numbers |-> <<0>>,
     practiced_lesson_names |-> <<"All">>,
     lessons |-> Empty]

NoCache == [none |-> TRUE]

\* the order of the text of the keys
KeyBefore_Text(a, b) ==
    \/ \E i \in 1..Len(a) :
          /\ i <= Len(b)
          /\ a[i] < b[i]
          /\ \A j \in 1..(i - 1) : a[j] = b[j]
    \/ /\ Len(a) < Len(b)
       /\ \A j \in 1..Len(a) : a[j] = b[j]

\* lesson_info.sort(key=lambda x: x[0]) on the pairs (int(lesson_key), name)
KeyBefore(a, b) == IntOf(a) < IntOf(b)

RECURSIVE SortedKeys(_)
\* the keys in the order the sort leaves them
SortedKeys(keys) ==
    IF keys = {}
    THEN <<>>
    ELSE LET first == CHOOSE k \in keys : \A o \in keys \ {k} : KeyBefore(k, o)
         IN  <<first>> \o SortedKeys(keys \ {first})

RECURSIVE SumAccuracy(_, _)
SumAccuracy(history, j) ==
    IF j = 0 THEN 0 ELSE history[j].accuracy + SumAccuracy(history, j - 1)

RECURSIVE SumOver(_, _)
\* the sum of f[k] over the keys
SumOver(f, keys) ==
    IF keys = {}
    THEN 0
    ELSE LET k == CHOOSE x \in keys : TRUE
         IN  f[k] + SumOver(f, keys \ {k})

\* update_overall_stats, the part that rewrites data
update_overall_stats(dt) ==
    LET order == SortedKeys(DOMAIN dt.lessons)
        sums == [k \in DOMAIN dt.lessons |->
                    SumAccuracy(dt.lessons[k].accuracy_history,
                                Len(dt.lessons[k].accuracy_history))]
        lens == [k \in DOMAIN dt.lessons |-> Len(dt.lessons[k].accuracy_history)]
        total == SumOver(sums, DOMAIN sums)
        number == SumOver(lens, DOMAIN lens)
    IN  [dt EXCEPT
            !.practiced_lesson_numbers =
                <<0>> \o [i \in 1..Len(order) |-> IntOf(order[i])],
            !.practiced_lesson_names =
                <<"All">> \o [i \in 1..Len(order) |-> dt.lessons[order[i]].lesson_name],
            !.average_accuracy =
                IF number > 0 THEN RoundDiv(total, number) ELSE 0]

\* add_practice_record, the part that rewrites data; now is the year of
\* datetime.now()
add_practice_record(dt, lesson_name, accuracy, practice_time, now) ==
    LET lesson_key == Str(extract_lesson_number(lesson_name))
        old == IF lesson_key \in DOMAIN dt.lessons
               THEN dt.lessons[lesson_key]
               ELSE [lesson_name |-> lesson_name,
                     practice_count |-> 0,
                     practice_time |-> 0,
                     average_accuracy |-> 0,
                     accuracy_history |-> <<>>]
        record == [timestamp |-> [year |-> now],
                   accuracy |-> accuracy,
                   practice_time |-> practice_time]
        history == Append(old.accuracy_history, record)
        new == [old EXCEPT
                   !.accuracy_history = history,
                   !.practice_count = @ + 1,
                   !.practice_time = @ + practice_time,
                   !.average_accuracy =
                       RoundDiv(SumAccuracy(history, Len(history)), Len(history))]
        a == [dt EXCEPT !.total_practice_time = @ + practice_time,
                        !.total_practice_count = @ + 1,
                        !.lessons = [k \in DOMAIN dt.lessons \cup {lesson_key} |->
                                        IF k = lesson_key THEN new ELSE dt.lessons[k]]]
    IN  update_overall_stats(a)

\* add_practice_record leaving the overall cache as it is
ClearedOverallCache_Kept(c) == c

\* self._overall_cache = None at the end of update_overall_stats and of
\* add_practice_record
ClearedOverallCache(c) == NoCache

\* the dict get_overall_stats builds
OverallOf(dt) ==
    [total_practice_time |-> dt.total_practice_time,
     total_practice_count |-> dt.total_practice_count,
     average_accuracy |-> dt.average_accuracy,
     practiced_lesson_numbers |-> dt.practiced_lesson_numbers,
     practiced_lesson_names |-> dt.practiced_lesson_names]

get_overall_stats(dt, cache) == IF cache # NoCache THEN cache ELSE OverallOf(dt)

RECURSIVE SortedInts(_)
\* sorted(list(years))
SortedInts(s) ==
    IF s = {}
    THEN <<>>
    ELSE LET least == CHOOSE x \in s : \A y \in s : x <= y
         IN  <<least>> \o SortedInts(s \ {least})

\* the years of the records of dt
PracticeYears(dt) ==
    UNION {{dt.lessons[k].accuracy_history[i].timestamp.year :
                i \in 1..Len(dt.lessons[k].accuracy_history)} :
           k \in DOMAIN dt.lessons}

get_all_practice_years(dt, now) ==
    LET years == PracticeYears(dt)
    IN  SortedInts(IF years = {} THEN {now} ELSE years)

InitStatistics ==
    /\ pc = "statistics"
    /\ error = "none"
    /\ console = <<>>
    /\ MaterialIdle
    /\ ToneIdle
    /\ WindowIdle
    /\ data = DefaultData
    /\ lesson_cache = {}
    /\ overall_cache = NoCache
    /\ returned = [call |-> "none"]
    /\ clock \in FirstYear..LastYear

StatsFrame == UNCHANGED <<pc, error, console, materialVars, toneVars, windowVars>>

\* stats_manager.add_practice_record from _show_check_result
AddPracticeRecord ==
    /\ data.total_practice_count < MaxRecords
    /\ \E n \in StatLessons, accuracy \in Accuracies, practice_time \in PracticeTimes :
          data' = add_practice_record(data, LessonName(n), accuracy, practice_time, clock)
    /\ lesson_cache' = {}
    /\ overall_cache' = ClearedOverallCache(overall_cache)
    /\ returned' = [call |-> "add_practice_record"]
    /\ UNCHANGED clock
    /\ StatsFrame

\* get_lesson_stats(k) for an int k, or for a lesson name of number k; 3 is
\* a lesson with no record, 0 as a name is a name with no lesson number
GetLessonStats ==
    /\ \E k \in StatLessons \cup {0, 3}, by_name \in BOOLEAN :
          LET lesson_key == IF by_name
                            THEN Str(extract_lesson_number(LessonName(k)))
                            ELSE Str(k)
          IN  IF ~by_name /\ k = 0
              THEN /\ returned' = [call |-> "get_lesson_stats",
                                   key |-> lesson_key,
                                   value |-> get_overall_stats(data, overall_cache)]
                   /\ overall_cache' = get_overall_stats(data, overall_cache)
                   /\ UNCHANGED lesson_cache
              ELSE /\ returned' = [call |-> "get_lesson_stats",
                                   key |-> lesson_key,
                                   value |-> IF lesson_key \in DOMAIN data.lessons
                                             THEN data.lessons[lesson_key]
                                             ELSE NoCache]
                   /\ lesson_cache' = IF lesson_key \in DOMAIN data.lessons
                                      THEN lesson_cache \cup {lesson_key}
                                      ELSE lesson_cache
                   /\ UNCHANGED overall_cache
    /\ UNCHANGED <<data, clock>>
    /\ StatsFrame

GetOverallStats ==
    /\ returned' = [call |-> "get_overall_stats",
                    value |-> get_overall_stats(data, overall_cache)]
    /\ overall_cache' = get_overall_stats(data, overall_cache)
    /\ UNCHANGED <<data, lesson_cache, clock>>
    /\ StatsFrame

GetAllPracticeYears ==
    /\ returned' = [call |-> "get_all_practice_years",
                    value |-> get_all_practice_years(data, clock)]
    /\ UNCHANGED <<data, lesson_cache, overall_cache, clock>>
    /\ StatsFrame

\* the calendar year changes
NewYear ==
    /\ clock < LastYear
    /\ clock' = clock + 1
    /\ UNCHANGED <<data, lesson_cache, overall_cache, returned>>
    /\ StatsFrame

NextStatistics ==
    \/ AddPracticeRecord
    \/ GetLessonStats
    \/ GetOverallStats
    \/ GetAllPracticeYears
    \/ NewYear

SpecStatistics == InitStatistics /\ [][NextStatistics]_vars

---------------------------------------------------------------------------
(* Properties of the stored lesson progress *)

\* the practices of lesson n on disk: the k with both koch-k.wav and koch-k.txt
PracticePairs(n, fs) ==
    Cardinality({k \in 1..(MaxPairs + 1) :
                    /\ LessonPath(n, k, "wav") \in DOMAIN fs
                    /\ LessonPath(n, k, "txt") \in DOMAIN fs})

\* a step of next_text: the second click on the check button
NextTextStep ==
    /\ Running
    /\ Running'
    /\ window.is_result_checked
    /\ ~window'.is_result_checked
    /\ window'.current_lesson_name = window.current_lesson_name

\* C24: in a lesson folder of N practice pairs get_lesson_text_count is N,
\* and next_text steps from an index within 0..N-1 to the next index,
\* wrapping to 0 after N-1, so that every practice is reached.
C24_PracticeCycling ==
    [][Running' =>
          LET N == PracticePairs(window'.current_lesson_name.num, files')
          IN  /\ get_lesson_text_count(window'.current_lesson_name, files') = N
              /\ (NextTextStep /\ N > 0 /\ window.current_text_index \in 0..(N - 1))
                    => window'.current_text_index
                          = (window.current_text_index + 1) % N]_vars

HasIndexKey(st) == \E k \in DOMAIN st : k.suffix = "_index"

CurrentLesson(st) == SettingsValue(st, PlainKey("current_lesson"), NoName)

\* C25: a call of clear_progress_settings leaves no key ending in "_index"
\* and leaves the value of "current_lesson" as it was (absent if it was).
C25_ClearKeepsCurrentLesson ==
    [][console' # console =>
          /\ ~HasIndexKey(settings')
          /\ CurrentLesson(settings') = CurrentLesson(settings)
          /\ (PlainKey("current_lesson") \in DOMAIN settings')
                <=> (PlainKey("current_lesson") \in DOMAIN settings)]_vars

\* clear_progress_settings has removed index keys and has kept a lesson
C25_Witness ==
    /\ console # <<>>
    /\ console[Len(console)].msg = "progress reset"
    /\ console[Len(console)].cleared >= 1
    /\ console[Len(console)].kept # NoName
    /\ CurrentLesson(settings) = console[Len(console)].kept
    /\ ~HasIndexKey(settings)

---------------------------------------------------------------------------
(* Properties of the players and the countdown *)

TextStoppedAtStart(w) == w.text_player.state = "stopped" /\ w.text_player.position = 0

Count(b) == IF b THEN 1 ELSE 0

\* C28: at most one of is_char_playing, is_text_playing and
\* is_countdown_active is true in every state of the open window.
C28_PlayerMutualExclusion ==
    Running =>
        Count(window.is_char_playing) + Count(window.is_text_playing)
            + Count(window.is_countdown_active) <= 1

\* the character audio plays after it took over from the practice text
C28_Witness ==
    /\ Running
    /\ window.is_char_playing
    /\ window.char_player.state = "playing"
    /\ window.text_player.state = "paused"
    /\ ~window.is_text_playing
    /\ ~window.is_countdown_active

---------------------------------------------------------------------------
(* Properties of the statistics *)

Elements(q) == {q[i] : i \in 1..Len(q)}

Ascending(q) == \A i \in 1..(Len(q) - 1) : q[i] < q[i + 1]

\* C27: get_all_practice_years returns the years of all practice records
\* in ascending order, the empty list when there is no record.
C27_PracticeYears ==
    returned.call = "get_all_practice_years"
        => /\ Ascending(returned.value)
           /\ Elements(returned.value) = PracticeYears(data)

PracticeCounts == [k \in DOMAIN data.lessons |-> data.lessons[k].practice_count]

\* C29: after any add_practice_record calls on the default structure,
\* total_practice_count is the sum of the lessons' practice_count, every
\* practice_count is the length of its accuracy_history, and
\* practiced_lesson_numbers is 0 followed by the recorded lesson numbers in
\* strictly ascending order.
C29_CountersConsistent ==
    pc = "statistics" =>
        LET numbers == data.practiced_lesson_numbers
        IN  /\ data.total_practice_count = SumOver(PracticeCounts, DOMAIN PracticeCounts)
            /\ \A k \in DOMAIN data.lessons :
                  data.lessons[k].practice_count = Len(data.lessons[k].accuracy_history)
            /\ numbers[1] = 0
            /\ Ascending(numbers)
            /\ Elements(SubSeq(numbers, 2, Len(numbers)))
                  = {data.lessons[k].lesson_name.num : k \in DOMAIN data.lessons}

\* records added for lessons 2 and 10, whose keys sort differently as text
C29_Witness ==
    /\ pc = "statistics"
    /\ data.total_practice_count = MaxRecords
    /\ data.practiced_lesson_numbers = <<0, 2, 10>>
    /\ data.lessons[Str(10)].practice_count = 2

\* C30: get_overall_stats returns the current totals, average and lesson
\* lists of data, and get_lesson_stats(k) the current record of a recorded
\* lesson k >= 1, whatever was cached before the last add_practice_record.
C30_CacheCoherence ==
    /\ (returned.call = "get_overall_stats")
          => /\ returned.value.total_practice_time = data.total_practice_time
             /\ returned.value.total_practice_count = data.total_practice_count
             /\ returned.value.average_accuracy = data.average_accuracy
             /\ returned.value.practiced_lesson_numbers = data.practiced_lesson_numbers
             /\ returned.value.practiced_lesson_names = data.practiced_lesson_names
    /\ (returned.call = "get_lesson_stats"
           /\ returned.key # Str(0)
           /\ returned.key \in DOMAIN data.lessons)
          => returned.value = data.lessons[returned.key]

\* the overall statistics queried after the last record was added
C30_Witness ==
    /\ returned.call = "get_overall_stats"
    /\ overall_cache = returned.value
    /\ lesson_cache # {}
    /\ data.total_practice_count = MaxRecords
    /\ returned.value.total_practice_count = MaxRecords

=============================================================================
